---- MODULE Spec2Model ----
(***************************************************************************)
(* Model of the GeodiversityTools scripts (src/Toolbox/Scripts, src/Scripts) *)
(*                                                                         *)
(* Two state machines share this module.                                   *)
(*   Spec     the data path of one tool run: zonal aggregation into the    *)
(*            per-zone result table, min-max standardization of the table, *)
(*            and the join of the table back onto the grid.                *)
(*   SpecRun  the control path of tool runs over the grid's attribute      *)
(*            table: validation checks, StatZoneID creation, the           *)
(*            geoprocessing steps (each of which may raise), the join,     *)
(*            rename and cleanup steps and the except/finally handlers.    *)
(*                                                                         *)
(* Numbers are exact rationals <<n, d>> with d > 0 in lowest terms; the    *)
(* database NULL (Python None) is <<0, 0>>.                                *)
(***************************************************************************)
EXTENDS Integers, FiniteSets, Sequences, TLC

\* ------------------------------------------------------------------ bounds
NumZones == 4
MaxCount == 2

\* ------------------------------------------------------- values and NULL
Null == <<0, 0>>
IsNull(v) == v[2] = 0
Rat(k) == <<k, 1>>
Zero == Rat(0)
One == Rat(1)

Abs(x) == IF x < 0 THEN -x ELSE x

RECURSIVE GCD(_, _)
GCD(a, b) == IF b = 0 THEN a ELSE GCD(b, a % b)

Norm(n, d) == IF n = 0 THEN <<0, 1>>
              ELSE LET g == GCD(Abs(n), d) IN <<n \div g, d \div g>>

QSub(a, b) == Norm(a[1] * b[2] - b[1] * a[2], a[2] * b[2])
QDiv(a, b) == IF b[1] > 0 THEN Norm(a[1] * b[2], a[2] * b[1])
              ELSE Norm(-(a[1] * b[2]), -(a[2] * b[1]))
QLess(a, b) == a[1] * b[2] < b[1] * a[2]
QLeq(a, b) == a[1] * b[2] <= b[1] * a[2]
QMin(S) == CHOOSE x \in S : \A y \in S : QLeq(x, y)
QMax(S) == CHOOSE x \in S : \A y \in S : QLeq(y, x)

\* ------------------------------------------------------------------ inputs
Zones == 1..NumZones                 \* OBJECTIDs of the grid's rows
Categories == {"A", "B"}
ZeroFill == "ZeroFill"
PreserveNull == "PreserveNull"
NoPolicy == "NoPolicy"
Policies == {ZeroFill, PreserveNull}

\* The user-chosen grid id field: equal to OBJECTID, or another unique
\* integer field whose values differ from the OBJECTIDs.
IdByObjectId == [z \in Zones |-> z]
IdShifted == [z \in Zones |-> z + 1]
IdFields == {IdByObjectId, IdShifted}

VARIABLES tool, policy, gridId, cats, nums, areas, table, minv, maxv, out, pc,
          rtool, input, cols, rpc, rerr, runs, cols0, statAdded, changed,
          shares, freq, cells, zonal, values, extrema,
          grid_geom, extreme_fc, points_map, all_points, area_dict, vr,
          profiles,
          warned, idfield, statzone, stat0, datasets, landscape, landscape0

dataVars == <<tool, policy, gridId, cats, nums, areas, table, minv, maxv, out, pc>>
envVars == <<warned, idfield, statzone, stat0, datasets, landscape, landscape0>>
runVars == <<rtool, input, cols, rpc, rerr, runs, cols0, statAdded, changed,
             envVars>>
shdiVars == <<shares, freq>>
sdcVars == <<cells, zonal>>
rmVars == <<values, extrema>>
asgVars == <<grid_geom, extreme_fc, points_map, profiles>>
relVars == <<all_points, area_dict, vr>>
moreVars == <<shdiVars, sdcVars, rmVars, asgVars, relVars>>
vars == <<dataVars, runVars, moreVars>>

use_zero_for_null == policy = ZeroFill

\* StatZoneID column of the grid: CalculateField copies the id field.
StatZoneID(z) == gridId[z]
all_near_fid == {StatZoneID(z) : z \in Zones}

Row(raw, std) == [raw |-> raw, std |-> std]
EmptyTable == [k \in {} |-> Row(Null, Null)]
NoOut == [z \in Zones |-> Row(Null, Null)]

NonNullRaw(t) == {t[k].raw : k \in {j \in DOMAIN t : ~IsNull(t[j].raw)}}

\* ===================================================================
\* P_Nc (src/Toolbox/Scripts/P_Nc.py): categories of point features
\* ===================================================================

\* Steps 2-4. Near writes the OBJECTID of the nearest grid polygon into
\* NEAR_FID; Dissolve by [category, NEAR_FID] and Frequency by NEAR_FID give
\* one row per NEAR_FID with FREQUENCY = number of distinct categories.
\* cats[z] is the set of categories of the points whose nearest polygon is z.
P_Nc_Frequency(c) ==
    [k \in {z \in Zones : c[z] # {}} |-> Row(Rat(Cardinality(c[k])), Null)]

\* Step 4.1: rows for the StatZoneID values absent from NEAR_FID.
missing_near_fid(t) == all_near_fid \ DOMAIN t

\* Variant of the completion step that inserts 0 whatever the null policy.
P_Nc_CompleteTable_AlwaysZero(t, zf) ==
    [k \in DOMAIN t \cup missing_near_fid(t) |->
        IF k \in DOMAIN t THEN t[k] ELSE Row(Zero, Null)]

P_Nc_CompleteTable(t, zf) ==
    [k \in DOMAIN t \cup missing_near_fid(t) |->
        IF k \in DOMAIN t THEN t[k]
        ELSE IF zf THEN Row(Zero, Null) ELSE Row(Null, Null)]

\* Step 5.1: NULL FREQUENCY -> 0 when the user chose so.
P_Nc_FillNulls(t, zf) ==
    [k \in DOMAIN t |->
        IF IsNull(t[k].raw) /\ zf THEN Row(Zero, t[k].std) ELSE t[k]]

\* Step 5.2: MIN and MAX over the non-null FREQUENCY values.
\* Variant of the minimum that is fixed at 0 whatever the null policy.
P_Nc_Min_AlwaysZero(t, zf) == Zero

P_Nc_Min(t, zf) ==
    IF NonNullRaw(t) = {} THEN Zero
    ELSE IF zf THEN Zero ELSE QMin(NonNullRaw(t))

P_Nc_Max(t, zf) ==
    IF NonNullRaw(t) = {} THEN Zero ELSE QMax(NonNullRaw(t))

\* Step 5.4: one row of the update cursor.
P_Nc_StdRow(r, zf, mn, mx) ==
    IF mx = mn THEN Row(r.raw, Zero)
    ELSE IF IsNull(r.raw)
         THEN IF zf THEN Row(r.raw, QDiv(Zero, mx)) ELSE Row(r.raw, Null)
         ELSE IF zf THEN Row(r.raw, QDiv(r.raw, mx))
              ELSE Row(r.raw, QDiv(QSub(r.raw, mn), QSub(mx, mn)))

P_Nc_Standardize(t, zf) ==
    LET t1 == P_Nc_FillNulls(t, zf)
        mn == P_Nc_Min(t1, zf)
        mx == P_Nc_Max(t1, zf)
    IN [k \in DOMAIN t1 |-> P_Nc_StdRow(t1[k], zf, mn, mx)]

\* JoinField(grid, grid key, table, table key, fields): every grid row takes
\* the fields of the table row whose key equals its own key value, NULL when
\* there is none.
JoinField(t, key) ==
    [z \in Zones |-> IF key[z] \in DOMAIN t THEN t[key[z]] ELSE Row(Null, Null)]


\* The grid row that carries a given StatZoneID value.
ZoneOf(k) == CHOOSE z \in Zones : StatZoneID(z) = k

\* ===================================================================
\* P_Ne (src/Toolbox/Scripts/P_Ne.py): number of point features
\* ===================================================================

\* Step 2: SpatialJoin(grid, points, JOIN_ONE_TO_ONE, KEEP_ALL): one row per
\* grid polygon, Join_Count (renamed Ne) = number of points in it.
\* nums[z] is the number of points in polygon z.
P_Ne_SpatialJoin(n) ==
    [k \in all_near_fid |-> Row(Rat(n[ZoneOf(k)]), Null)]

\* Step 3: zeros become NULL when empty cells are to be preserved.
P_Ne_ZerosToNull(t, zf) ==
    [k \in DOMAIN t |->
        IF ~zf /\ t[k].raw = Zero THEN Row(Null, t[k].std) ELSE t[k]]

\* Step 4: MIN and MAX of the non-null Ne values.
P_Ne_Min(t, zf) ==
    IF NonNullRaw(t) = {} THEN Zero
    ELSE IF zf THEN Zero ELSE QMin(NonNullRaw(t))

P_Ne_Max(t, zf) ==
    IF NonNullRaw(t) = {} THEN Zero ELSE QMax(NonNullRaw(t))

\* Variant of the row update that writes 0 for a null raw value.
P_Ne_StdRow_NullToZero(r, zf, mn, mx) ==
    IF mx = mn \/ IsNull(r.raw) THEN Row(r.raw, Zero)
    ELSE IF ~zf THEN Row(r.raw, QDiv(QSub(r.raw, mn), QSub(mx, mn)))
         ELSE Row(r.raw, QDiv(r.raw, mx))

P_Ne_StdRow(r, zf, mn, mx) ==
    IF mx = mn THEN Row(r.raw, Zero)
    ELSE IF IsNull(r.raw) THEN Row(r.raw, Null)
    ELSE IF ~zf THEN Row(r.raw, QDiv(QSub(r.raw, mn), QSub(mx, mn)))
         ELSE Row(r.raw, QDiv(r.raw, mx))

P_Ne_Standardize(t, zf) ==
    LET mn == P_Ne_Min(t, zf)
        mx == P_Ne_Max(t, zf)
    IN [k \in DOMAIN t |-> P_Ne_StdRow(t[k], zf, mn, mx)]

\* ===================================================================
\* L_Tl (src/Toolbox/Scripts/L_Tl.py): total length of line features
\* ===================================================================

\* Steps 2-4: Intersect(lines, grid), Dissolve by StatZoneID, Lines_Length =
\* Shape_Length: one row per zone that holds a line part.
\* nums[z] is the length of the lines inside polygon z (0: no line).
L_Tl_Dissolve(n) ==
    [k \in {StatZoneID(z) : z \in {y \in Zones : n[y] > 0}} |->
        Row(Rat(n[ZoneOf(k)]), Null)]

\* Step 5: MIN and MAX of the non-null Lines_Length values.
\* Variant of the minimum that is fixed at 0 whatever the null policy.
L_Tl_Min_AlwaysZero(t, zf) == Zero

L_Tl_Min(t, zf) ==
    IF NonNullRaw(t) = {} THEN Zero
    ELSE IF zf THEN Zero ELSE QMin(NonNullRaw(t))

L_Tl_Max(t, zf) ==
    IF NonNullRaw(t) = {} THEN Zero ELSE QMax(NonNullRaw(t))

\* Variant of the row update that writes 1 in the degenerate case.
L_Tl_StdRow_DegenerateOne(r, zf, mn, mx) ==
    IF IsNull(r.raw) THEN IF zf THEN Row(Zero, Zero) ELSE Row(Null, Null)
    ELSE IF mx = mn THEN Row(r.raw, One)
    ELSE IF zf THEN Row(r.raw, QDiv(r.raw, mx))
         ELSE Row(r.raw, QDiv(QSub(r.raw, mn), QSub(mx, mn)))

L_Tl_StdRow(r, zf, mn, mx) ==
    IF IsNull(r.raw)
    THEN IF zf THEN Row(Zero, Zero) ELSE Row(Null, Null)
    ELSE IF mx = mn THEN Row(r.raw, Zero)
    ELSE IF zf THEN Row(r.raw, QDiv(r.raw, mx))
         ELSE Row(r.raw, QDiv(QSub(r.raw, mn), QSub(mx, mn)))

L_Tl_Standardize(t, zf) ==
    LET mn == L_Tl_Min(t, zf)
        mx == L_Tl_Max(t, zf)
    IN [k \in DOMAIN t |-> L_Tl_StdRow(t[k], zf, mn, mx)]

\* Step 8: after the join, NULLs of the two joined grid columns become 0.
L_Tl_ReplaceNulls(o, zf) ==
    [z \in Zones |->
        IF zf THEN Row(IF IsNull(o[z].raw) THEN Zero ELSE o[z].raw,
                       IF IsNull(o[z].std) THEN Zero ELSE o[z].std)
        ELSE o[z]]


\* ===================================================================
\* R_M (src/Toolbox/Scripts/R_M.py): vertical relief index, steps 10-12
\* ===================================================================

\* math.sqrt on the areas of the model, which are perfect squares.
ISqrt(a) == CHOOSE r \in 0..a : r * r = a

\* Step 10 inserts one vertical_relief row per grid row, step 11b sets
\* A_sqrt = sqrt(area) if area > 0 else None, step 11c sets
\* RM = MU / A_sqrt unless A_sqrt is None or 0.
\* nums[z] is MU of polygon z, areas[z] its SHAPE@AREA.
A_sqrt(area) == IF area > 0 THEN Rat(ISqrt(area)) ELSE Null

R_M_RM(mu, area) ==
    IF ~IsNull(A_sqrt(area)) /\ A_sqrt(area) # Zero
    THEN QDiv(Rat(mu), A_sqrt(area)) ELSE Null

R_M_ReliefTable(n, a) ==
    [k \in all_near_fid |-> Row(R_M_RM(n[ZoneOf(k)], a[ZoneOf(k)]), Null)]

\* Step 12: RM_MM.
R_M_Standardize(t) ==
    LET rm_values == NonNullRaw(t)
        rm_min == QMin(rm_values)
        rm_max == QMax(rm_values)
    IN IF rm_values # {}
       THEN IF QLess(rm_min, rm_max)
            THEN [k \in DOMAIN t |->
                     IF ~IsNull(t[k].raw)
                     THEN Row(t[k].raw, QDiv(QSub(t[k].raw, rm_min),
                                             QSub(rm_max, rm_min)))
                     ELSE Row(t[k].raw, Null)]
            ELSE [k \in DOMAIN t |-> Row(t[k].raw, Zero)]
       ELSE t

\* ===================================================================
\* A_Nc, A_Ne (src/Toolbox/Scripts/A_Nc.py, A_Ne.py): guarded StandardizeField
\* ===================================================================

\* A_Nc steps 2-3: Dissolve by category, SpatialJoin(grid, dissolved,
\* JOIN_ONE_TO_ONE, KEEP_ALL): one row per grid polygon, Join_Count = number
\* of dissolved categories that intersect it.
\* cats[z] is the set of categories that intersect polygon z.
A_Nc_SpatialJoin(c) ==
    [k \in all_near_fid |-> Row(Rat(Cardinality(c[ZoneOf(k)])), Null)]

\* A_Ne steps 2-5: Intersect(landscape, grid), MultipartToSinglepart,
\* Count = 1, Statistics SUM(Count) by StatZoneID: one row per StatZoneID
\* value present in the intersection.
\* nums[z] is the number of single-part fragments inside polygon z.
A_Ne_Statistics(n) ==
    [k \in {StatZoneID(z) : z \in {y \in Zones : n[y] > 0}} |->
        Row(Rat(n[ZoneOf(k)]), Null)]

\* The geometry engine's StandardizeField(table, field, "MIN-MAX", 0, 1).
StandardizeField(t) ==
    LET mn == QMin(NonNullRaw(t))
        mx == QMax(NonNullRaw(t))
    IN [k \in DOMAIN t |->
           IF IsNull(t[k].raw) THEN Row(t[k].raw, Null)
           ELSE Row(t[k].raw, QDiv(QSub(t[k].raw, mn), QSub(mx, mn)))]

\* Step 4 of A_Nc, step 6 of A_Ne: Statistics MIN/MAX, then either 0 for
\* every row or StandardizeField.
GuardedStandardize(t) ==
    IF QMin(NonNullRaw(t)) = QMax(NonNullRaw(t))
    THEN [k \in DOMAIN t |-> Row(t[k].raw, Zero)]
    ELSE StandardizeField(t)


\* ===================================================================
\* Spec: the data path of one run
\* ===================================================================
DataTools == {"P_Nc", "P_Ne", "L_Tl", "R_M", "A_Nc", "A_Ne"}
PolicyTools == {"P_Nc", "P_Ne", "L_Tl"}
CategoryTools == {"P_Nc", "A_Nc"}
NoCats == [z \in Zones |-> {}]
NoNums == [z \in Zones |-> 0]
AreaValues == {0, 4}

\* The grid without a StatZoneID column, and the landscape layer's own
\* columns.
NoColumn == << >>
\* No zone: the value of StatZoneID that AddField leaves, and None.
NoneZid == 0
LandscapeFields == {"OBJECTID", "Shape", "CATEGORY"}

EnvIdle ==
    /\ warned = FALSE /\ idfield = IdByObjectId
    /\ statzone = NoColumn /\ stat0 = NoColumn /\ datasets = {}
    /\ landscape = LandscapeFields /\ landscape0 = LandscapeFields

RunIdle ==
    /\ rtool = "none" /\ cols = {} /\ rpc = "idle" /\ rerr = "none"
    /\ runs = 0 /\ cols0 = {} /\ statAdded = FALSE /\ changed = FALSE
    /\ input = "none"
    /\ EnvIdle

\* The working tables of the tools that have a machine of their own.
ShdiIdle ==
    /\ shares = [z \in Zones |-> [c \in Categories |-> -1]]
    /\ freq = [k \in {} |-> 0]

NoCells == [kind |-> "absent", dirs |-> {}, n |-> 0]

SdcIdle ==
    /\ cells = [z \in Zones |-> NoCells]
    /\ zonal = [k \in {} |-> 0]

RmIdle ==
    /\ values = <<>>
    /\ extrema = <<>>

AsgIdle ==
    /\ grid_geom = <<>>
    /\ extreme_fc = {}
    /\ points_map = <<>>
    /\ profiles = {}

RelIdle ==
    /\ all_points = <<>>
    /\ area_dict = <<>>
    /\ vr = <<>>

MoreIdle == ShdiIdle /\ SdcIdle /\ RmIdle /\ AsgIdle /\ RelIdle

InitData ==
    /\ tool \in DataTools
    /\ policy \in (IF tool \in PolicyTools THEN Policies ELSE {NoPolicy})
    /\ gridId \in (IF tool = "P_Nc" THEN IdFields ELSE {IdByObjectId})
    /\ cats \in (IF tool \in CategoryTools
                 THEN [Zones -> SUBSET Categories] ELSE {NoCats})
    /\ nums \in (IF tool \in CategoryTools
                 THEN {NoNums} ELSE [Zones -> 0..MaxCount])
    /\ areas \in (IF tool = "R_M" THEN [Zones -> AreaValues] ELSE {NoNums})
    /\ table = EmptyTable
    /\ minv = Null /\ maxv = Null
    /\ out = NoOut
    /\ pc = "aggregate"
    /\ RunIdle /\ MoreIdle

inputs == <<tool, policy, gridId, cats, nums, areas>>

P_Nc_FrequencyStep ==
    /\ tool = "P_Nc" /\ pc = "aggregate"
    /\ table' = P_Nc_Frequency(cats)
    /\ pc' = "complete"
    /\ UNCHANGED <<inputs, minv, maxv, out, runVars, moreVars>>

P_Nc_CompleteStep ==
    /\ tool = "P_Nc" /\ pc = "complete"
    /\ table' = P_Nc_CompleteTable(table, use_zero_for_null)
    /\ pc' = "standardize"
    /\ UNCHANGED <<inputs, minv, maxv, out, runVars, moreVars>>

P_Nc_StandardizeStep ==
    /\ tool = "P_Nc" /\ pc = "standardize"
    /\ table' = P_Nc_Standardize(table, use_zero_for_null)
    /\ minv' = P_Nc_Min(P_Nc_FillNulls(table, use_zero_for_null), use_zero_for_null)
    /\ maxv' = P_Nc_Max(P_Nc_FillNulls(table, use_zero_for_null), use_zero_for_null)
    /\ pc' = "join"
    /\ UNCHANGED <<inputs, out, runVars, moreVars>>

P_Nc_JoinStep ==
    /\ tool = "P_Nc" /\ pc = "join"
    /\ out' = JoinField(table, gridId)
    /\ pc' = "done"
    /\ UNCHANGED <<inputs, table, minv, maxv, runVars, moreVars>>

P_Ne_SpatialJoinStep ==
    /\ tool = "P_Ne" /\ pc = "aggregate"
    /\ table' = P_Ne_ZerosToNull(P_Ne_SpatialJoin(nums), use_zero_for_null)
    /\ pc' = "standardize"
    /\ UNCHANGED <<inputs, minv, maxv, out, runVars, moreVars>>

P_Ne_StandardizeStep ==
    /\ tool = "P_Ne" /\ pc = "standardize"
    /\ table' = P_Ne_Standardize(table, use_zero_for_null)
    /\ minv' = P_Ne_Min(table, use_zero_for_null)
    /\ maxv' = P_Ne_Max(table, use_zero_for_null)
    /\ pc' = "join"
    /\ UNCHANGED <<inputs, out, runVars, moreVars>>

P_Ne_JoinStep ==
    /\ tool = "P_Ne" /\ pc = "join"
    /\ out' = JoinField(table, gridId)
    /\ pc' = "done"
    /\ UNCHANGED <<inputs, table, minv, maxv, runVars, moreVars>>

L_Tl_DissolveStep ==
    /\ tool = "L_Tl" /\ pc = "aggregate"
    /\ table' = L_Tl_Dissolve(nums)
    /\ pc' = "standardize"
    /\ UNCHANGED <<inputs, minv, maxv, out, runVars, moreVars>>

L_Tl_StandardizeStep ==
    /\ tool = "L_Tl" /\ pc = "standardize"
    /\ table' = L_Tl_Standardize(table, use_zero_for_null)
    /\ minv' = L_Tl_Min(table, use_zero_for_null)
    /\ maxv' = L_Tl_Max(table, use_zero_for_null)
    /\ pc' = "join"
    /\ UNCHANGED <<inputs, out, runVars, moreVars>>

\* Steps 7-8: JoinField, then the optional replacement of NULLs on the grid.
L_Tl_JoinStep ==
    /\ tool = "L_Tl" /\ pc = "join"
    /\ out' = L_Tl_ReplaceNulls(JoinField(table, gridId), use_zero_for_null)
    /\ pc' = "done"
    /\ UNCHANGED <<inputs, table, minv, maxv, runVars, moreVars>>


R_M_ReliefStep ==
    /\ tool = "R_M" /\ pc = "aggregate"
    /\ table' = R_M_ReliefTable(nums, areas)
    /\ pc' = "standardize"
    /\ UNCHANGED <<inputs, minv, maxv, out, runVars, moreVars>>

R_M_StandardizeStep ==
    /\ tool = "R_M" /\ pc = "standardize"
    /\ table' = R_M_Standardize(table)
    /\ minv' = (IF NonNullRaw(table) = {} THEN Null ELSE QMin(NonNullRaw(table)))
    /\ maxv' = (IF NonNullRaw(table) = {} THEN Null ELSE QMax(NonNullRaw(table)))
    /\ pc' = "join"
    /\ UNCHANGED <<inputs, out, runVars, moreVars>>

R_M_JoinStep ==
    /\ tool = "R_M" /\ pc = "join"
    /\ out' = JoinField(table, gridId)
    /\ pc' = "done"
    /\ UNCHANGED <<inputs, table, minv, maxv, runVars, moreVars>>

A_Nc_SpatialJoinStep ==
    /\ tool = "A_Nc" /\ pc = "aggregate"
    /\ table' = A_Nc_SpatialJoin(cats)
    /\ pc' = "standardize"
    /\ UNCHANGED <<inputs, minv, maxv, out, runVars, moreVars>>

A_Nc_StandardizeStep ==
    /\ tool = "A_Nc" /\ pc = "standardize"
    /\ table' = GuardedStandardize(table)
    /\ minv' = QMin(NonNullRaw(table))
    /\ maxv' = QMax(NonNullRaw(table))
    /\ pc' = "join"
    /\ UNCHANGED <<inputs, out, runVars, moreVars>>

A_Nc_JoinStep ==
    /\ tool = "A_Nc" /\ pc = "join"
    /\ out' = JoinField(table, gridId)
    /\ pc' = "done"
    /\ UNCHANGED <<inputs, table, minv, maxv, runVars, moreVars>>

A_Ne_StatisticsStep ==
    /\ tool = "A_Ne" /\ pc = "aggregate"
    /\ table' = A_Ne_Statistics(nums)
    /\ pc' = "standardize"
    /\ UNCHANGED <<inputs, minv, maxv, out, runVars, moreVars>>

\* Step 6: with an empty ne_table the statistics row holds no number and
\* float(row[0]) raises; the run ends in the except handler.
A_Ne_StandardizeStep ==
    /\ tool = "A_Ne" /\ pc = "standardize"
    /\ IF table = EmptyTable
       THEN /\ pc' = "failed"
            /\ UNCHANGED <<table, minv, maxv>>
       ELSE /\ table' = GuardedStandardize(table)
            /\ minv' = QMin(NonNullRaw(table))
            /\ maxv' = QMax(NonNullRaw(table))
            /\ pc' = "join"
    /\ UNCHANGED <<inputs, out, runVars, moreVars>>

A_Ne_JoinStep ==
    /\ tool = "A_Ne" /\ pc = "join"
    /\ out' = JoinField(table, gridId)
    /\ pc' = "done"
    /\ UNCHANGED <<inputs, table, minv, maxv, runVars, moreVars>>

NextData ==
    \/ P_Nc_FrequencyStep \/ P_Nc_CompleteStep \/ P_Nc_StandardizeStep \/ P_Nc_JoinStep
    \/ P_Ne_SpatialJoinStep \/ P_Ne_StandardizeStep \/ P_Ne_JoinStep
    \/ L_Tl_DissolveStep \/ L_Tl_StandardizeStep \/ L_Tl_JoinStep
    \/ R_M_ReliefStep \/ R_M_StandardizeStep \/ R_M_JoinStep
    \/ A_Nc_SpatialJoinStep \/ A_Nc_StandardizeStep \/ A_Nc_JoinStep
    \/ A_Ne_StatisticsStep \/ A_Ne_StandardizeStep \/ A_Ne_JoinStep

Spec == InitData /\ [][NextData]_vars


\* ===================================================================
\* SpecRun: the control path of tool runs over the grid's columns
\* ===================================================================
MaxRuns == 2

RunTools == {"A_Nc", "A_Ne", "A_SHDI", "L_Tl", "P_H", "P_Hu", "P_Nc", "P_Ne",
             "P_Ne2", "R_M", "R_SD", "R_SDc", "R_SDc_mem", "R_SDcm"}

stat_zone_field_ID == "StatZoneID"

\* Tools that add the temporary zone field to the grid.
StatZoneTools == RunTools \ {"P_H", "P_Ne2", "R_SDc_mem", "R_SDcm"}

\* str.upper() on the field names that occur (prefix "LIT").
Upper(n) ==
    CASE n = "StatZoneID" -> "STATZONEID"
      [] n = "Join_Count" -> "JOIN_COUNT"
      [] n = "Join_Count_MIN_MAX" -> "JOIN_COUNT_MIN_MAX"
      [] n = "SUM_Count" -> "SUM_COUNT"
      [] n = "SUM_Count_MIN_MAX" -> "SUM_COUNT_MIN_MAX"
      [] n = "SUM_SumElement" -> "SUM_SUMELEMENT"
      [] n = "SUM_SumElement_MIN_MAX" -> "SUM_SUMELEMENT_MIN_MAX"
      [] n = "Lines_Length" -> "LINES_LENGTH"
      [] n = "Lines_Length_MIN_MAX" -> "LINES_LENGTH_MIN_MAX"
      [] n = "SUM_H_i" -> "SUM_H_I"
      [] n = "SUM_H_i_MIN_MAX" -> "SUM_H_I_MIN_MAX"
      [] n = "Ne" -> "NE"
      [] n = "Ne_MIN_MAX" -> "NE_MIN_MAX"
      [] n = "SDc" -> "SDC"
      [] n = "SDc_MM" -> "SDC_MM"
      [] n = "LIT_ANc" -> "LIT_ANC"
      [] n = "LIT_ANc_MM" -> "LIT_ANC_MM"
      [] n = "LIT_ANe" -> "LIT_ANE"
      [] n = "LIT_ANe_MM" -> "LIT_ANE_MM"
      [] n = "LIT_LTl" -> "LIT_LTL"
      [] n = "LIT_LTl_MM" -> "LIT_LTL_MM"
      [] n = "LIT_PHu" -> "LIT_PHU"
      [] n = "LIT_PHu_MM" -> "LIT_PHU_MM"
      [] n = "LIT_PNc" -> "LIT_PNC"
      [] n = "LIT_PNc_MM" -> "LIT_PNC_MM"
      [] n = "LIT_PNe" -> "LIT_PNE"
      [] n = "LIT_PNe_MM" -> "LIT_PNE_MM"
      [] n = "LIT_Ne" -> "LIT_NE"
      [] n = "LIT_Ne_MM" -> "LIT_NE_MM"
      [] n = "LIT_RSDc" -> "LIT_RSDC"
      [] n = "LIT_RSDcMM" -> "LIT_RSDCMM"
      [] n = "LIT_SDcm" -> "LIT_SDCM"
      [] n = "Std_LIT_SDcm" -> "STD_LIT_SDCM"
      [] OTHER -> n

\* The name of the raw output column of each tool.
output_index_name(t) ==
    CASE t = "A_Nc" -> "LIT_ANc"       [] t = "A_Ne" -> "LIT_ANe"
      [] t = "A_SHDI" -> "LIT_ASHDI"   [] t = "L_Tl" -> "LIT_LTl"
      [] t = "P_H" -> "LIT_H"          [] t = "P_Hu" -> "LIT_PHu"
      [] t = "P_Nc" -> "LIT_PNc"       [] t = "P_Ne" -> "LIT_PNe"
      [] t = "P_Ne2" -> "LIT_Ne"       [] t = "R_M" -> "LIT_R_M"
      [] t = "R_SD" -> "LIT_RSD"       [] t = "R_SDc" -> "LIT_RSDc"
      [] t = "R_SDc_mem" -> "LIT_RSDc" [] t = "R_SDcm" -> "LIT_SDcm"

\* The name of the standardized output column of each tool.
std_output_index_name(t) ==
    CASE t = "A_Nc" -> "LIT_ANc_MM"      [] t = "A_Ne" -> "LIT_ANe_MM"
      [] t = "A_SHDI" -> "LIT_SHDIMM"    [] t = "L_Tl" -> "LIT_LTl_MM"
      [] t = "P_H" -> "LIT_Ne_MM"        [] t = "P_Hu" -> "LIT_PHu_MM"
      [] t = "P_Nc" -> "LIT_PNc_MM"      [] t = "P_Ne" -> "LIT_PNe_MM"
      [] t = "P_Ne2" -> "LIT_Ne_MM"      [] t = "R_M" -> "LIT_RM_MM"
      [] t = "R_SD" -> "LIT_RSD_MM"      [] t = "R_SDc" -> "LIT_RSDcMM"
      [] t = "R_SDc_mem" -> "LIT_RSDcMM" [] t = "R_SDcm" -> "Std_LIT_SDcm"

\* The fields that JoinField copies from the result table onto the grid,
\* as <<raw, standardized>>; P_H joins one field only.
JoinFields(t) ==
    CASE t = "A_Nc" -> <<"Join_Count", "Join_Count_MIN_MAX">>
      [] t = "A_Ne" -> <<"SUM_Count", "SUM_Count_MIN_MAX">>
      [] t = "A_SHDI" -> <<"SUM_SumElement", "SUM_SumElement_MIN_MAX">>
      [] t = "L_Tl" -> <<"Lines_Length", "Lines_Length_MIN_MAX">>
      [] t = "P_H" -> <<"SUM_H_i">>
      [] t = "P_Hu" -> <<"SUM_H_i", "SUM_H_i_MIN_MAX">>
      [] t = "P_Nc" -> <<"FREQUENCY", "FREQUENCY_MIN_MAX">>
      [] t \in {"P_Ne", "P_Ne2"} -> <<"Ne", "Ne_MIN_MAX">>
      [] t = "R_M" -> <<"RM", "RM_MM">>
      [] t = "R_SD" -> <<"STD", "STD_MM">>
      [] t \in {"R_SDc", "R_SDc_mem"} -> <<"SDc", "SDc_MM">>
      [] t = "R_SDcm" -> << >>

\* The names that the "remove old join fields" step looks for.
fields_to_check(t) ==
    CASE t = "A_Nc" -> {"JOIN_COUNT", "JOIN_COUNT_MIN_MAX"}
      [] t = "A_Ne" -> {"SUM_COUNT", "SUM_COUNT_MIN_MAX"}
      [] t = "A_SHDI" -> {"SUM_SUMELEMENT", "SUM_SUMELEMENT_MIN_MAX"}
      [] t = "L_Tl" -> {"LINES_LENGTH", "LINES_LENGTH_MIN_MAX"}
      [] t = "P_Hu" -> {"SUM_H_i", "SUM_H_i_MIN_MAX"}
      [] t = "P_Nc" -> {"FREQUENCY", "FREQUENCY_MIN_MAX"}
      [] t = "R_SD" -> {"STD", "STD_MM"}
      [] t \in {"R_SDc", "R_SDc_mem"} -> {"SDC", "SDC_MM"}
      [] OTHER -> {}

\* A grid column is <<name, k>>: k = 0 is the plain name, k > 0 the name
\* with the suffix _k that JoinField appends to keep names unique.
Col(n) == <<n, 0>>
UpperCol(c) == <<Upper(c[1]), c[2]>>
StatZoneCol == Col(stat_zone_field_ID)

\* The first free suffix for a joined field.
RECURSIVE FreeSuffix(_, _, _)
FreeSuffix(n, c, k) == IF <<n, k>> \in c THEN FreeSuffix(n, c, k + 1) ELSE k

Range(f) == {f[i] : i \in DOMAIN f}

\* The output-field check of each tool: the names it looks for, and the
\* list of existing names it looks in.
existing_fields(t, c) == IF t = "P_H" THEN c ELSE {UpperCol(f) : f \in c}

field_raw(t) ==
    IF t \in {"P_H", "R_SDcm"} THEN Col(output_index_name(t))
    ELSE UpperCol(Col(output_index_name(t)))

field_std(t) ==
    IF t \in {"P_H", "R_SDcm"} THEN Col(std_output_index_name(t))
    ELSE UpperCol(Col(std_output_index_name(t)))

FieldConflict(t, c) ==
    \/ field_raw(t) \in existing_fields(t, c)
    \/ t # "P_H" /\ field_std(t) \in existing_fields(t, c)

\* The conditions of a run's inputs and environment.
\* The cleanup operations that may fail at the end of a run.
CleanupFailures == {"deleteFieldError", "deleteError", "compactError"}

Inputs(t) ==
    {"none", "shapefile", "emptyLayer", "disjoint", "emptyIntersect",
     "execError", "alterError"}
      \cup CleanupFailures
      \cup (IF t \in PolicyTools THEN {"nullMode"} ELSE {})

\* The input conditions that each tool checks for before its field check.
PreChecks(t) ==
    CASE t \in {"A_Nc", "A_Ne", "P_Hu"} -> {"emptyLayer", "disjoint"}
      [] t = "A_SHDI" -> {"shapefile", "emptyLayer", "disjoint"}
      [] t \in {"L_Tl", "P_Nc"} -> {"nullMode"}
      [] t = "P_Ne" -> {"nullMode", "shapefile", "emptyLayer", "disjoint"}
      [] t = "R_M" -> {"shapefile", "disjoint"}
      [] OTHER -> {}

AbortError(i) ==
    CASE i = "nullMode" -> "InvalidNullMode"
      [] i = "shapefile" -> "Shapefile"
      [] i = "emptyLayer" -> "EmptyLayer"
      [] i = "disjoint" -> "Disjoint"

\* The datasets of R_M that live in memory and those written to the
\* workspace geodatabase.
intermediate_memory_data ==
    {<<"memory", n>> :
        n \in {"centroids_table", "profile_lines", "profile_points",
               "profile_points_values", "extreme_points",
               "border_points_assigned", "border_points_assigned_z",
               "border_points_assigned_z_nonnull", "vertical_relief"}}

R_M_workspace_data ==
    {<<"gdb", n>> :
        n \in {"profile_lines_view", "all_profile_points",
               "vertical_relief_copy"}}

\* The intermediate datasets that a run of each tool creates.
Intermediates(t) ==
    CASE t = "A_Nc" -> {<<"gdb", n>> : n \in {"dissolved_fl", "nc_fl", "stats_table"}}
      [] t = "A_Ne" -> {<<"gdb", n>> : n \in {"intersect_fc", "mts_fc", "ne_table"}}
      [] t = "A_SHDI" ->
            {<<"gdb", n>> : n \in {"out_intersect_fc", "out_mts_fc",
                                     "freq_table", "shdi_table"}}
      [] t = "L_Tl" -> {<<"gdb", n>> : n \in {"intersect_fc", "dissolved_fc"}}
      [] t = "P_H" ->
            {<<"gdb", n>> : n \in {"intersect_fc", "tabulate_intersection_table",
                                     "H_table"}}
      [] t = "P_Hu" ->
            {<<"gdb", n>> : n \in {"intersect_fc", "tabulate_intersection_table",
                                     "Hu_table"}}
      [] t = "P_Nc" -> {<<"gdb", n>> : n \in {"dissolved_fc", "nc_table"}}
      [] t \in {"P_Ne", "P_Ne2"} -> {<<"gdb", "intersect_fc">>}
      [] t = "R_SD" -> {<<"gdb", "zonal_stat_table">>}
      [] t = "R_SDc" ->
            {<<"gdb", n>> : n \in {"landscape_rad", "landscape_sin",
                                     "landscape_cos", "zonal_sin_tbl",
                                     "zonal_cos_tbl", "zonal_stat_table"}}
      [] t = "R_SDc_mem" ->
            {<<"memory", n>> : n \in {"landscape_rad", "landscape_sin",
                                        "landscape_cos", "zonal_sin_tbl",
                                        "zonal_cos_tbl", "zonal_stat_table"}}
      [] t = "R_SDcm" -> {<<"gdb", "SLOPE_ZONAL_STAT">>}
      [] t = "R_M" -> intermediate_memory_data \cup R_M_workspace_data

\* The tools whose Delete of a dataset sits in a try of its own.
GuardedDelete == {"A_Nc", "R_SD", "R_SDc", "R_SDc_mem"}
\* The tools whose Compact sits in a try of its own.
GuardedCompact == {"R_SDc", "R_SDc_mem"}

\* The columns that Near adds to the landscape layer.
NearFields == {"NEAR_FID", "NEAR_DIST"}

\* Step 1 on the column, call by call: DeleteField when ListFields names it,
\* AddField of an empty LONG field, CalculateField with the id field.
DeleteListed(col) == IF col # NoColumn THEN NoColumn ELSE col
AddLongField(col) == IF col = NoColumn THEN [z \in Zones |-> NoneZid] ELSE col
CalculateIdField(col, idf) == [z \in DOMAIN col |-> idf[z]]

\* Variant of step 1 that keeps a column it finds.
decorate_Reuse(old, idf) == IF old = NoColumn THEN idf ELSE old

decorate(old, idf) == CalculateIdField(AddLongField(DeleteListed(old)), idf)

DataIdle ==
    /\ tool = "none" /\ policy = NoPolicy /\ gridId = IdByObjectId
    /\ cats = NoCats /\ nums = NoNums /\ areas = NoNums
    /\ table = EmptyTable /\ minv = Null /\ maxv = Null /\ out = NoOut
    /\ pc = "idle"

InitRun ==
    /\ rtool \in RunTools
    /\ input = "none" /\ cols = {} /\ rpc = "idle" /\ rerr = "none"
    /\ runs = 0 /\ cols0 = {} /\ statAdded = FALSE /\ changed = FALSE
    /\ EnvIdle
    /\ DataIdle /\ MoreIdle

\* A run starts: the tool reads its parameters.
StartRun ==
    /\ rpc = "idle" /\ runs < MaxRuns
    /\ input' \in Inputs(rtool)
    /\ idfield' \in IdFields
    /\ cols0' = cols /\ statAdded' = FALSE /\ changed' = FALSE
    /\ stat0' = statzone /\ landscape0' = landscape /\ warned' = FALSE
    /\ rerr' = "none" /\ rpc' = "validate"
    /\ UNCHANGED <<rtool, cols, runs, statzone, datasets, landscape,
                   dataVars, moreVars>>

\* Null-handling mode, shapefile, empty-layer and extent checks.  R_SD
\* refers to the undefined name landscape_fl in its extent check.
ValidateInputs ==
    /\ rpc = "validate"
    /\ IF rtool = "R_SD"
       THEN rerr' = "NameError" /\ rpc' = "except"
       ELSE IF input \in PreChecks(rtool)
            THEN rerr' = AbortError(input) /\ rpc' = "except"
            ELSE rerr' = rerr /\ rpc' = "fieldcheck"
    /\ UNCHANGED <<rtool, input, cols, runs, cols0, statAdded, changed,
                   envVars, dataVars, moreVars>>

\* The check for output fields that exist on the grid already.
CheckOutputFields ==
    /\ rpc = "fieldcheck"
    /\ IF FieldConflict(rtool, cols)
       THEN rerr' = "FieldConflict" /\ rpc' = "except"
       ELSE /\ rerr' = rerr
            /\ rpc' = (IF rtool \in StatZoneTools THEN "statzone" ELSE "process")
    /\ UNCHANGED <<rtool, input, cols, runs, cols0, statAdded, changed,
                   envVars, dataVars, moreVars>>

\* Step 1: a leftover StatZoneID is deleted, the field is added and filled.
CreateStatZoneID ==
    /\ rpc = "statzone"
    /\ cols' = (cols \ {StatZoneCol}) \cup {StatZoneCol}
    /\ statzone' = decorate(statzone, idfield)
    /\ statAdded' = TRUE /\ changed' = TRUE /\ rpc' = "process"
    /\ UNCHANGED <<rtool, input, rerr, runs, cols0, warned, idfield, stat0,
                   datasets, landscape, landscape0, dataVars, moreVars>>

\* The geoprocessing steps that build the result table.  Any of them may
\* raise an ExecuteError, before the first intermediate dataset is written
\* or after the last; A_SHDI raises when the intersection is empty; A_Ne and
\* P_Hu read MIN and MAX of an empty table with float().  P_Nc runs Near on
\* the landscape layer first.
Geoprocess ==
    /\ rpc = "process"
    /\ LET made == datasets \cup Intermediates(rtool)
           near == IF rtool = "P_Nc" THEN landscape \cup NearFields
                   ELSE landscape
       IN IF input = "execError"
          THEN /\ rerr' = "ExecuteError" /\ rpc' = "except"
               /\ \/ datasets' = datasets /\ landscape' = landscape
                  \/ datasets' = made /\ landscape' = near
          ELSE IF input = "emptyIntersect" /\ rtool = "A_SHDI"
          THEN /\ rerr' = "EmptyIntersect" /\ rpc' = "except"
               /\ datasets' = made /\ landscape' = near
          ELSE IF input = "emptyIntersect" /\ rtool \in {"A_Ne", "P_Hu"}
          THEN /\ rerr' = "PythonError" /\ rpc' = "except"
               /\ datasets' = made /\ landscape' = near
          ELSE /\ rerr' = rerr
               /\ rpc' = (IF rtool = "R_SDcm" THEN "addfield" ELSE "removeold")
               /\ datasets' = made /\ landscape' = near
    /\ UNCHANGED <<rtool, input, cols, runs, cols0, statAdded, changed,
                   warned, idfield, statzone, stat0, landscape0,
                   dataVars, moreVars>>


\* R_SDcm step 2: AddField of the raw output field.  On a field that exists
\* the tool call either only warns or raises, depending on the workspace.
AddOutputField ==
    /\ rpc = "addfield"
    /\ IF Col(output_index_name(rtool)) \in cols
       THEN \/ cols' = cols /\ changed' = changed /\ rerr' = rerr
               /\ rpc' = "finally"
            \/ cols' = cols /\ changed' = changed /\ rerr' = "ExecuteError"
               /\ rpc' = "except"
       ELSE /\ cols' = cols \cup {Col(output_index_name(rtool))}
            /\ changed' = TRUE /\ rerr' = rerr /\ rpc' = "finally"
    /\ UNCHANGED <<rtool, input, runs, cols0, statAdded, envVars,
                   dataVars, moreVars>>

\* Old join fields are deleted from the grid where the tool looks for them.
RemoveOldJoinFields ==
    /\ rpc = "removeold"
    /\ LET fields_to_remove ==
               {n \in fields_to_check(rtool) :
                    Col(n) \in {UpperCol(f) : f \in cols}}
           removed ==
               {f \in cols : \E n \in fields_to_remove :
                                 UpperCol(f) = UpperCol(Col(n))}
       IN /\ cols' = cols \ removed
          /\ changed' = (changed \/ removed # {})
    /\ rpc' = "join"
    /\ UNCHANGED <<rtool, input, rerr, runs, cols0, statAdded, envVars,
                   dataVars, moreVars>>

\* JoinField copies the result fields onto the grid; a name that exists on
\* the grid is made unique by a suffix.
JoinResults ==
    /\ rpc = "join"
    /\ cols' = cols \cup {<<n, FreeSuffix(n, cols, 0)>> :
                              n \in Range(JoinFields(rtool))}
    /\ changed' = TRUE /\ rpc' = "rename"
    /\ UNCHANGED <<rtool, input, rerr, runs, cols0, statAdded, envVars,
                   dataVars, moreVars>>

\* AlterField renames the joined fields to the output names.
RenameFields ==
    /\ rpc = "rename"
    /\ IF input = "alterError"
       THEN /\ rerr' = "ExecuteError" /\ rpc' = "except"
            /\ UNCHANGED <<cols, changed>>
       ELSE /\ cols' = (cols \ {Col(n) : n \in Range(JoinFields(rtool))})
                         \cup {Col(output_index_name(rtool))}
                         \cup (IF Len(JoinFields(rtool)) = 2
                               THEN {Col(std_output_index_name(rtool))}
                               ELSE {})
            /\ changed' = TRUE /\ rerr' = rerr
            /\ rpc' = (IF rtool = "R_M" THEN "finally" ELSE "cleanup")
    /\ UNCHANGED <<rtool, input, runs, cols0, statAdded, envVars,
                   dataVars, moreVars>>

\* The cleanup step at the end of the try body of every tool but R_M and
\* R_SDcm: DeleteField of the temporary zone field (and, in P_Nc, of the Near
\* fields of the landscape layer), Delete of the intermediate datasets,
\* Compact of the workspace.  A call that fails outside a try of its own
\* raises, and the calls after it are not made.
Cleanup ==
    /\ rpc = "cleanup"
    /\ LET noZone == IF rtool \in StatZoneTools THEN cols \ {StatZoneCol}
                     ELSE cols
           noStat == IF rtool \in StatZoneTools THEN NoColumn ELSE statzone
           noNear == IF rtool = "P_Nc" THEN landscape \ NearFields
                     ELSE landscape
           swept == datasets \ Intermediates(rtool)
       IN IF input = "deleteFieldError" /\ rtool \in StatZoneTools
          THEN /\ rerr' = "CleanupExecuteError" /\ rpc' = "except"
               /\ UNCHANGED <<cols, statzone, landscape, datasets, warned>>
          ELSE IF input = "deleteError" /\ rtool \in GuardedDelete
          THEN /\ warned' = TRUE /\ rerr' = rerr /\ rpc' = "finally"
               /\ cols' = noZone /\ statzone' = noStat
               /\ landscape' = noNear /\ datasets' = datasets
          ELSE IF input = "deleteError"
          THEN /\ rerr' = "CleanupExecuteError" /\ rpc' = "except"
               /\ cols' = noZone /\ statzone' = noStat
               /\ landscape' = noNear
               /\ UNCHANGED <<datasets, warned>>
          ELSE IF input = "compactError" /\ rtool \notin GuardedCompact
          THEN /\ rerr' = "CleanupExecuteError" /\ rpc' = "except"
               /\ cols' = noZone /\ statzone' = noStat
               /\ landscape' = noNear /\ datasets' = swept
               /\ warned' = warned
          ELSE /\ rerr' = rerr /\ rpc' = "finally"
               /\ cols' = noZone /\ statzone' = noStat
               /\ landscape' = noNear /\ datasets' = swept
               /\ warned' = warned
    /\ UNCHANGED <<rtool, input, runs, cols0, statAdded, changed, idfield,
                   stat0, landscape0, dataVars, moreVars>>

\* The except handlers report the error.
ExceptHandler ==
    /\ rpc = "except"
    /\ rpc' = "finally"
    /\ UNCHANGED <<rtool, input, cols, rerr, runs, cols0, statAdded, changed,
                   envVars, dataVars, moreVars>>

\* The finally block.  R_M does its cleanup here, inside one try whose
\* except reports a warning: the temporary zone field is deleted, then the
\* datasets in memory.
Finally ==
    /\ rpc = "finally"
    /\ IF rtool # "R_M"
       THEN UNCHANGED <<cols, statzone, datasets, warned>>
       ELSE IF input = "deleteFieldError" /\ StatZoneCol \in cols
       THEN /\ warned' = TRUE
            /\ UNCHANGED <<cols, statzone, datasets>>
       ELSE IF input = "deleteError" /\ datasets # {}
       THEN /\ warned' = TRUE
            /\ cols' = cols \ {StatZoneCol} /\ statzone' = NoColumn
            /\ datasets' = datasets
       ELSE /\ cols' = cols \ {StatZoneCol} /\ statzone' = NoColumn
            /\ datasets' = datasets \ intermediate_memory_data
            /\ warned' = warned
    /\ runs' = runs + 1 /\ rpc' = "idle"
    /\ UNCHANGED <<rtool, input, rerr, cols0, statAdded, changed, idfield,
                   stat0, landscape, landscape0, dataVars, moreVars>>

NextRun ==
    \/ StartRun \/ ValidateInputs \/ CheckOutputFields \/ CreateStatZoneID
    \/ Geoprocess \/ AddOutputField \/ RemoveOldJoinFields \/ JoinResults
    \/ RenameFields \/ Cleanup \/ ExceptHandler \/ Finally

SpecRun == InitRun /\ [][NextRun]_vars


\* ===================================================================
\* SpecSHDI: the data path of A_SHDI (Shannon diversity of polygon areas)
\* ===================================================================
MaxShare == 2
MaxShdiZones == 2

QAdd(a, b) == Norm(a[1] * b[2] + b[1] * a[2], a[2] * b[2])
QMul(a, b) == Norm(a[1] * b[1], a[2] * b[2])
QNeg(a) == <<-a[1], a[2]>>

\* math.log at the proportions that occur, to two decimals; log(1) is 0.
Ln(p) ==
    CASE p = <<1, 1>> -> Zero
      [] p = <<1, 2>> -> Norm(-69, 100)
      [] p = <<1, 3>> -> Norm(-110, 100)
      [] p = <<2, 3>> -> Norm(-41, 100)
      [] p = <<1, 4>> -> Norm(-139, 100)
      [] p = <<3, 4>> -> Norm(-29, 100)
      [] p = <<1, 5>> -> Norm(-161, 100)
      [] p = <<2, 5>> -> Norm(-92, 100)
      [] p = <<3, 5>> -> Norm(-51, 100)
      [] p = <<4, 5>> -> Norm(-22, 100)

\* shares[z][c] is the area of category c inside zone z after Intersect and
\* MultipartToSinglepart; -1 when no part of category c lies in zone z.
NoShares == [z \in Zones |-> [c \in Categories |-> -1]]

ShareInputs ==
    {sh \in [Zones -> [Categories -> -1..MaxShare]] :
        \A z \in Zones : z > MaxShdiZones => sh[z] = NoShares[z]}

\* Step 4: Statistics SUM(Shape_Area) by StatZoneID and category; step 5
\* adds the empty fields p_i and SumElement.
A_SHDI_Statistics(sh) ==
    [kc \in {<<StatZoneID(x[1]), x[2]>> :
                 x \in {y \in Zones \X Categories : sh[y[1]][y[2]] >= 0}} |->
        [area |-> sh[ZoneOf(kc[1])][kc[2]], p_i |-> Null, SumElement |-> Null]]

FreqKeys(ft) == {kc[1] : kc \in DOMAIN ft}
RowsOf(ft, fid) == {kc \in DOMAIN ft : kc[1] = fid}

RECURSIVE SumArea(_, _)
SumArea(ft, K) ==
    IF K = {} THEN 0
    ELSE LET x == CHOOSE y \in K : TRUE IN ft[x].area + SumArea(ft, K \ {x})

\* Step 6: the area dictionary.
total_area(ft) == [fid \in FreqKeys(ft) |-> SumArea(ft, RowsOf(ft, fid))]

\* The area of a grid polygon: large enough to hold every category at its
\* largest share, so a zone may be covered in full or in part.
ZoneArea == Cardinality(Categories) * MaxShare

\* Variant of the proportion that divides by the area of the grid polygon.
p_val_OverZoneArea(area, denom) == Norm(area, ZoneArea)

\* Step 7: p_i and SumElement of one row.
p_val(area, denom) == IF denom > 0 THEN Norm(area, denom) ELSE Zero

sum_el(p) == IF QLess(Zero, p) THEN QNeg(QMul(p, Ln(p))) ELSE Zero

A_SHDI_Proportions(ft) ==
    [kc \in DOMAIN ft |->
        LET p == p_val(ft[kc].area, total_area(ft)[kc[1]])
        IN [area |-> ft[kc].area, p_i |-> p, SumElement |-> sum_el(p)]]

RECURSIVE SumElements(_, _)
SumElements(ft, K) ==
    IF K = {} THEN Zero
    ELSE LET x == CHOOSE y \in K : TRUE
         IN QAdd(ft[x].SumElement, SumElements(ft, K \ {x}))

\* Step 8: Statistics SUM(SumElement) by StatZoneID.
A_SHDI_Sum(ft) ==
    [fid \in FreqKeys(ft) |-> Row(SumElements(ft, RowsOf(ft, fid)), Null)]

InitSHDI ==
    /\ tool = "A_SHDI" /\ policy = NoPolicy /\ gridId = IdByObjectId
    /\ cats = NoCats /\ nums = NoNums /\ areas = NoNums
    /\ shares \in ShareInputs
    /\ freq = [k \in {} |-> 0]
    /\ table = EmptyTable /\ minv = Null /\ maxv = Null /\ out = NoOut
    /\ pc = "aggregate"
    /\ RunIdle /\ SdcIdle /\ RmIdle /\ AsgIdle /\ RelIdle

\* Steps 2-5; the script raises when the intersect output is empty.
A_SHDI_StatisticsStep ==
    /\ tool = "A_SHDI" /\ pc = "aggregate"
    /\ IF shares = NoShares
       THEN pc' = "failed" /\ freq' = freq
       ELSE pc' = "proportion" /\ freq' = A_SHDI_Statistics(shares)
    /\ UNCHANGED <<inputs, shares, table, minv, maxv, out, runVars, sdcVars, rmVars, asgVars, relVars>>

\* Steps 6-7.
A_SHDI_ProportionStep ==
    /\ tool = "A_SHDI" /\ pc = "proportion"
    /\ freq' = A_SHDI_Proportions(freq)
    /\ pc' = "sum"
    /\ UNCHANGED <<inputs, shares, table, minv, maxv, out, runVars, sdcVars, rmVars, asgVars, relVars>>

\* Step 8.
A_SHDI_SumStep ==
    /\ tool = "A_SHDI" /\ pc = "sum"
    /\ table' = A_SHDI_Sum(freq)
    /\ pc' = "standardize"
    /\ UNCHANGED <<inputs, shares, freq, minv, maxv, out, runVars, sdcVars, rmVars, asgVars, relVars>>

\* Step 9: StandardizeField without a guard.  With MIN = MAX the tool
\* divides by zero: it raises, or writes NULL, or writes the lower bound 0.
A_SHDI_StandardizeStep ==
    /\ tool = "A_SHDI" /\ pc = "standardize"
    /\ minv' = QMin(NonNullRaw(table)) /\ maxv' = QMax(NonNullRaw(table))
    /\ IF QMin(NonNullRaw(table)) = QMax(NonNullRaw(table))
       THEN \/ table' = table /\ pc' = "failed"
            \/ table' = table /\ pc' = "join"
            \/ table' = [k \in DOMAIN table |-> Row(table[k].raw, Zero)]
               /\ pc' = "join"
       ELSE table' = StandardizeField(table) /\ pc' = "join"
    /\ UNCHANGED <<inputs, shares, freq, out, runVars, sdcVars, rmVars, asgVars, relVars>>

\* Steps 11-12: JoinField on StatZoneID and AlterField.
A_SHDI_JoinStep ==
    /\ tool = "A_SHDI" /\ pc = "join"
    /\ out' = JoinField(table, gridId)
    /\ pc' = "done"
    /\ UNCHANGED <<inputs, shares, freq, table, minv, maxv, runVars, sdcVars, rmVars, asgVars, relVars>>

NextSHDI ==
    \/ A_SHDI_StatisticsStep \/ A_SHDI_ProportionStep \/ A_SHDI_SumStep
    \/ A_SHDI_StandardizeStep \/ A_SHDI_JoinStep

SpecSHDI == InitSHDI /\ [][NextSHDI]_vars


\* ===================================================================
\* R_SDc and R_SDc_mem: circular standard deviation of an angle raster
\* ===================================================================
MaxCells == 1
MaxSdcZones == 2

\* Cell values of the angle raster, in degrees.
Directions == {0, 90, 180, 270}

\* Sin and Cos of the Spatial Analyst at these angles.
Sin(d) == CASE d = 0 -> 0 [] d = 90 -> 1 [] d = 180 -> 0 [] d = 270 -> -1
Cos(d) == CASE d = 0 -> 1 [] d = 90 -> 0 [] d = 180 -> -1 [] d = 270 -> 0

\* What ZonalStatisticsAsTable finds in a zone: no row at all, a row whose
\* COUNT is None, a row whose COUNT is 0, or n cells at each angle of dirs.
ZoneCells ==
    {NoCells, [kind |-> "countNone", dirs |-> {}, n |-> 0],
     [kind |-> "countZero", dirs |-> {}, n |-> 0]}
    \cup {[kind |-> "cells", dirs |-> D, n |-> k] :
             D \in (SUBSET Directions) \ {{}}, k \in 1..MaxCells}

CellInputs ==
    {[z \in Zones |-> IF z <= MaxSdcZones THEN f[z] ELSE NoCells] :
        f \in [1..MaxSdcZones -> ZoneCells]}

RECURSIVE SumOver(_, _)
SumOver(f, D) ==
    IF D = {} THEN 0
    ELSE LET d == CHOOSE x \in D : TRUE IN f[d] + SumOver(f, D \ {d})

\* Steps 4-8: zonal SUM of sin and cos with COUNT, one row per zone that
\* the tool reports; R, R_Mn and SDc are added empty.
ZonalStatisticsAsTable(c) ==
    [k \in {StatZoneID(z) : z \in {y \in Zones : c[y].kind # "absent"}} |->
        LET zc == c[ZoneOf(k)] IN
        [COUNT |-> CASE zc.kind = "countNone" -> Null
                     [] zc.kind = "countZero" -> Zero
                     [] OTHER -> Rat(zc.n * Cardinality(zc.dirs)),
         SumSin |-> IF zc.kind = "cells"
                    THEN Rat(zc.n * SumOver([d \in Directions |-> Sin(d)], zc.dirs))
                    ELSE Null,
         SumCos |-> IF zc.kind = "cells"
                    THEN Rat(zc.n * SumOver([d \in Directions |-> Cos(d)], zc.dirs))
                    ELSE Null,
         R |-> Null, R_Mn |-> Null, SDc |-> Null]]

\* math.sqrt rounded down to an integer.
RECURSIVE SqrtBetween(_, _, _)
SqrtBetween(a, lo, hi) ==
    IF lo = hi THEN lo
    ELSE LET mid == (lo + hi + 1) \div 2
         IN IF mid * mid <= a THEN SqrtBetween(a, mid, hi)
            ELSE SqrtBetween(a, lo, mid - 1)

FloorSqrt(a) == SqrtBetween(a, 0, IF a < 46340 THEN a ELSE 46340)

\* DOUBLE values are kept to three decimals.
Scale == 1000

\* 180 / math.pi, in thousandths.
DegPerRad == 57296

\* calc_r: None when a sum is missing.
calc_r(sin_val, cos_val) ==
    IF IsNull(sin_val) \/ IsNull(cos_val) THEN Null
    ELSE Norm(FloorSqrt((sin_val[1] * sin_val[1] + cos_val[1] * cos_val[1])
                            * Scale * Scale), Scale)

\* (!R! / !COUNT!) if !COUNT! not in (None, 0) else 0
calc_R_Mn(r, count) ==
    IF count \notin {Null, Zero} THEN QDiv(r, count) ELSE Zero

\* Variant of the SDc expression without the factor 2 under the root.
calc_SDc_NoFactorTwo(t, rmn) ==
    LET q == QSub(Rat(1), rmn)
        root == FloorSqrt(((q[1] * Scale) \div q[2]) * Scale)
    IN Norm((DegPerRad * root) \div (10 * Scale), 100)

\* (180/math.pi)*math.sqrt(max(0, 2*(1-!R_Mn!))), in hundredths of a
\* degree; R_SDc_mem has no max(0, ...).
calc_SDc(t, rmn) ==
    LET q == QMul(Rat(2), QSub(Rat(1), rmn))
        radicand == IF t = "R_SDc" /\ QLess(q, Zero) THEN Zero ELSE q
        root == FloorSqrt(((radicand[1] * Scale) \div radicand[2]) * Scale)
    IN Norm((DegPerRad * root) \div (10 * Scale), 100)

\* Step 9.
R_SDc_Calculate(t, zt) ==
    [k \in DOMAIN zt |->
        LET r == calc_r(zt[k].SumSin, zt[k].SumCos)
            rmn == calc_R_Mn(r, zt[k].COUNT)
        IN [zt[k] EXCEPT !.R = r, !.R_Mn = rmn, !.SDc = calc_SDc(t, rmn)]]

\* Step 10.1: Statistics MIN and MAX of SDc, None over no values.
min_sdc(t) == IF NonNullRaw(t) = {} THEN Null ELSE QMin(NonNullRaw(t))
max_sdc(t) == IF NonNullRaw(t) = {} THEN Null ELSE QMax(NonNullRaw(t))

\* Step 10.2: "0" for every row when max = min, else minmax(!SDc!).
R_SDc_Standardize(t) ==
    IF max_sdc(t) = min_sdc(t)
    THEN [k \in DOMAIN t |-> Row(t[k].raw, Zero)]
    ELSE [k \in DOMAIN t |->
             Row(t[k].raw, QDiv(QSub(t[k].raw, min_sdc(t)),
                                QSub(max_sdc(t), min_sdc(t))))]

InitSDc ==
    /\ tool \in {"R_SDc", "R_SDc_mem"} /\ policy = NoPolicy
    /\ gridId = IdByObjectId
    /\ cats = NoCats /\ nums = NoNums /\ areas = NoNums
    /\ cells \in CellInputs
    /\ zonal = [k \in {} |-> 0]
    /\ table = EmptyTable /\ minv = Null /\ maxv = Null /\ out = NoOut
    /\ pc = "zonal"
    /\ RunIdle /\ ShdiIdle /\ RmIdle /\ AsgIdle /\ RelIdle

R_SDc_ZonalStep ==
    /\ tool \in {"R_SDc", "R_SDc_mem"} /\ pc = "zonal"
    /\ zonal' = ZonalStatisticsAsTable(cells)
    /\ pc' = "calculate"
    /\ UNCHANGED <<inputs, cells, table, minv, maxv, out, runVars, shdiVars, rmVars, asgVars, relVars>>

R_SDc_CalculateStep ==
    /\ tool \in {"R_SDc", "R_SDc_mem"} /\ pc = "calculate"
    /\ zonal' = R_SDc_Calculate(tool, zonal)
    /\ table' = [k \in DOMAIN zonal |->
                    Row(R_SDc_Calculate(tool, zonal)[k].SDc, Null)]
    /\ pc' = "standardize"
    /\ UNCHANGED <<inputs, cells, minv, maxv, out, runVars, shdiVars, rmVars, asgVars, relVars>>

R_SDc_StandardizeStep ==
    /\ tool \in {"R_SDc", "R_SDc_mem"} /\ pc = "standardize"
    /\ minv' = min_sdc(table) /\ maxv' = max_sdc(table)
    /\ table' = R_SDc_Standardize(table)
    /\ pc' = "join"
    /\ UNCHANGED <<inputs, cells, zonal, out, runVars, shdiVars, rmVars, asgVars, relVars>>

R_SDc_JoinStep ==
    /\ tool \in {"R_SDc", "R_SDc_mem"} /\ pc = "join"
    /\ out' = JoinField(table, gridId)
    /\ pc' = "done"
    /\ UNCHANGED <<inputs, cells, zonal, table, minv, maxv, runVars, shdiVars, rmVars, asgVars, relVars>>

NextSDc ==
    \/ R_SDc_ZonalStep \/ R_SDc_CalculateStep
    \/ R_SDc_StandardizeStep \/ R_SDc_JoinStep

SpecSDc == InitSDc /\ [][NextSDc]_vars


\* ===================================================================
\* R_M step 4: local extrema along one sampled profile
\* ===================================================================
MaxSamples == 4
MaxElev == 2

\* RASTERVALU of a profile point: None outside the raster or on NoData.
SampleValues == {Null} \cup {Rat(k) : k \in 0..MaxElev}

\* The values of one profile in sampling order; points[i] is sample i.
ProfileInputs == UNION {[1..n -> SampleValues] : n \in 1..MaxSamples}

valid_indices(vals) == {i \in 1..Len(vals) : ~IsNull(vals[i])}

\* The test of the loop body at interior index i.
is_extremum(vals, i) ==
    /\ ~IsNull(vals[i]) /\ ~IsNull(vals[i - 1]) /\ ~IsNull(vals[i + 1])
    /\ \/ QLess(vals[i - 1], vals[i]) /\ QLess(vals[i + 1], vals[i])
       \/ QLess(vals[i], vals[i - 1]) /\ QLess(vals[i], vals[i + 1])

\* for i in range(1, len(values) - 1), from sample i on.
RECURSIVE interior_extrema(_, _)
interior_extrema(vals, i) ==
    IF i >= Len(vals) THEN <<>>
    ELSE (IF is_extremum(vals, i) THEN <<<<i, vals[i]>>>> ELSE <<>>)
         \o interior_extrema(vals, i + 1)

\* Each extremum is the pair (points[i], values[i]).
detect_extrema(vals) ==
    IF Cardinality(valid_indices(vals)) < 3 THEN <<>>
    ELSE (IF ~IsNull(vals[1]) THEN <<<<1, vals[1]>>>> ELSE <<>>)
         \o interior_extrema(vals, 2)
         \o (IF ~IsNull(vals[Len(vals)])
             THEN <<<<Len(vals), vals[Len(vals)]>>>> ELSE <<>>)

InitExtrema ==
    /\ tool = "R_M" /\ policy = NoPolicy /\ gridId = IdByObjectId
    /\ cats = NoCats /\ nums = NoNums /\ areas = NoNums
    /\ table = EmptyTable /\ minv = Null /\ maxv = Null /\ out = NoOut
    /\ values \in ProfileInputs
    /\ extrema = <<>>
    /\ pc = "detect"
    /\ RunIdle /\ ShdiIdle /\ SdcIdle /\ AsgIdle /\ RelIdle

DetectExtrema ==
    /\ tool = "R_M" /\ pc = "detect"
    /\ extrema' = detect_extrema(values)
    /\ pc' = "detected"
    /\ UNCHANGED <<inputs, table, minv, maxv, out, values, runVars,
                   shdiVars, sdcVars, asgVars, relVars>>

NextExtrema == DetectExtrema

SpecExtrema == InitExtrema /\ [][NextExtrema]_vars


\* ===================================================================
\* R_M steps 2-5 and 10: extreme points are given their zone
\* ===================================================================
MaxCoord == 4
MaxAssignZones == 2
MaxExtreme == 1

\* Map coordinates; the raster spans Coords in x and in y.
Coords == 0..MaxCoord

\* rast.meanCellWidth and rast.meanCellHeight.
CellSize == 2
eps_x == CellSize \div 2
eps_y == CellSize \div 2

\* Polygons of the grid: squares of one or two raster cells a side.
Squares ==
    {r \in [xlo : Coords, xhi : Coords, ylo : Coords, yhi : Coords] :
        /\ r.xlo % CellSize = 0 /\ r.ylo % CellSize = 0
        /\ r.xhi - r.xlo \in {CellSize, 2 * CellSize}
        /\ r.yhi - r.ylo = r.xhi - r.xlo}

GridInputs == [1..MaxAssignZones -> Squares]

\* Step 2: row[0].centroid.
centroid(r) == <<(r.xlo + r.xhi) \div 2, (r.ylo + r.yhi) \div 2>>

\* Variant of unique_within that keeps a coordinate at the tolerance itself.
RECURSIVE unique_within_Strict(_, _, _)
unique_within_Strict(S, kept, tol) ==
    IF S = {} THEN kept
    ELSE LET y == CHOOSE m \in S : \A n \in S : m <= n
         IN unique_within_Strict(S \ {y},
                IF \E yu \in kept : Abs(y - yu) < tol THEN kept
                ELSE kept \cup {y}, tol)

\* Step 3: sorted coordinates, kept when no kept one is within tol.
RECURSIVE unique_within(_, _, _)
unique_within(S, kept, tol) ==
    IF S = {} THEN kept
    ELSE LET y == CHOOSE m \in S : \A n \in S : m <= n
         IN unique_within(S \ {y},
                IF \E yu \in kept : Abs(y - yu) <= tol THEN kept
                ELSE kept \cup {y}, tol)

ys_unique(g) == unique_within({centroid(g[z])[2] : z \in DOMAIN g}, {}, eps_y)
xs_unique(g) == unique_within({centroid(g[z])[1] : z \in DOMAIN g}, {}, eps_x)


\* Step 4: the sample points of the global profiles.
ProfilePoints(g) ==
    {[x |-> px, y |-> py, Direction |-> "W-E", zid |-> NoneZid] :
        px \in Coords, py \in ys_unique(g)}
    \cup {[x |-> px, y |-> py, Direction |-> "N-S", zid |-> NoneZid] :
        px \in xs_unique(g), py \in Coords}

RECURSIVE SubsetsUpTo(_, _)
SubsetsUpTo(S, k) ==
    IF k = 0 THEN {{}}
    ELSE LET prev == SubsetsUpTo(S, k - 1)
         IN prev \cup {T \cup {e} : T \in prev, e \in S}

\* Step 5, the test of the inner loop.
on_correct_line(direction, px, py, c) ==
    \/ direction = "W-E" /\ Abs(py - c[2]) <= eps_y
    \/ direction = "N-S" /\ Abs(px - c[1]) <= eps_x

\* Variant of the containment test that accepts every point.
contains_Everything(poly, px, py) == TRUE

\* poly.contains(geom): the boundary belongs to the polygon.
contains(poly, px, py) ==
    /\ poly.xlo <= px /\ px <= poly.xhi
    /\ poly.ylo <= py /\ py <= poly.yhi

\* centroid_dict is walked in the order of the grid's rows; the first zone
\* that passes both tests is taken.
assigned_zid(g, pt) ==
    LET ok == {z \in DOMAIN g :
                  /\ on_correct_line(pt.Direction, pt.x, pt.y, centroid(g[z]))
                  /\ contains(g[z], pt.x, pt.y)}
    IN IF ok = {} THEN NoneZid
       ELSE StatZoneID(CHOOSE z \in ok : \A w \in ok : z <= w)

\* Step 10: zone_data = points_map.get(zid, []).
zone_data(pm, zid) == IF zid \in DOMAIN pm THEN pm[zid] ELSE {}

InitAssign ==
    /\ tool = "R_M" /\ policy = NoPolicy /\ gridId \in IdFields
    /\ cats = NoCats /\ nums = NoNums /\ areas = NoNums
    /\ table = EmptyTable /\ minv = Null /\ maxv = Null /\ out = NoOut
    /\ grid_geom \in GridInputs
    /\ extreme_fc = {}
    /\ points_map = <<>>
    /\ profiles = {}
    /\ pc = "profiles"
    /\ RunIdle /\ ShdiIdle /\ SdcIdle /\ RmIdle /\ RelIdle

\* Step 3: one ProfileLine per kept coordinate, as <<direction, y or x>>.
global_profiles(g) ==
    {<<"W-E", y>> : y \in ys_unique(g)} \cup {<<"N-S", x>> : x \in xs_unique(g)}

GenerateProfiles ==
    /\ tool = "R_M" /\ pc = "profiles"
    /\ profiles' = global_profiles(grid_geom)
    /\ pc' = "detect"
    /\ UNCHANGED <<inputs, table, minv, maxv, out, grid_geom, extreme_fc,
                   points_map, runVars, shdiVars, sdcVars, rmVars, relVars>>

\* Step 4: the extrema found on the profiles become the rows of extreme_fc.
InsertExtremePoints ==
    /\ tool = "R_M" /\ pc = "detect"
    /\ extreme_fc' \in SubsetsUpTo(ProfilePoints(grid_geom), MaxExtreme)
    /\ pc' = "assign"
    /\ UNCHANGED <<inputs, table, minv, maxv, out, grid_geom, points_map,
                   profiles, runVars, shdiVars, sdcVars, rmVars, relVars>>

\* Step 5: the UpdateCursor over extreme_fc.
AssignStatZoneID ==
    /\ tool = "R_M" /\ pc = "assign"
    /\ extreme_fc' = {[pt EXCEPT !.zid = assigned_zid(grid_geom, pt)] :
                         pt \in extreme_fc}
    /\ pc' = "group"
    /\ UNCHANGED <<inputs, table, minv, maxv, out, grid_geom, points_map,
                   profiles, runVars, shdiVars, sdcVars, rmVars, relVars>>

\* Step 10: points are grouped by their StatZoneID.
GroupPoints ==
    /\ tool = "R_M" /\ pc = "group"
    /\ points_map' = [zid \in {pt.zid : pt \in extreme_fc} |->
                         {pt \in extreme_fc : pt.zid = zid}]
    /\ pc' = "grouped"
    /\ UNCHANGED <<inputs, table, minv, maxv, out, grid_geom, extreme_fc,
                   profiles, runVars, shdiVars, sdcVars, rmVars, relVars>>

NextAssign ==
    \/ GenerateProfiles \/ InsertExtremePoints
    \/ AssignStatZoneID \/ GroupPoints

SpecAssign == InitAssign /\ [][NextAssign]_vars


\* ===================================================================
\* R_M steps 2 and 10-11: relief of the zones from the profile points
\* ===================================================================
MaxPos == 2

\* Positions along the two centroid axes of the first zone, which cross at
\* (AxisAt, AxisAt).
Positions == 0..MaxPos
AxisAt == 1

\* Raster values at the profile points.
Elevations == {0, 1, 4}

\* SHAPE@AREA of a row without geometry is None.
NoArea == -1
AreaInputs == {NoArea, 0, 1, 4}

\* all_points_fc: rows (Z, Direction, SHAPE@X, SHAPE@Y, StatZoneID) of the
\* extreme points and the border points with a Z value.  Two points at one
\* place have the same Z and add nothing to the sums, so a set is kept.
PointsOf(e, ns, we, zid) ==
    {<<e[py], "N-S", AxisAt, py, zid>> : py \in ns}
    \cup {<<e[px], "W-E", px, AxisAt, zid>> : px \in we}

AllPointsInputs ==
    {PointsOf(e, ns, we, gridId[1]) :
        e \in [Positions -> Elevations],
        ns \in SUBSET Positions, we \in SUBSET Positions}

\* sorted(..., key=lambda x: x[k]) on the 0-based field k - 1.
RECURSIVE sorted(_, _)
sorted(S, k) ==
    IF S = {} THEN <<>>
    ELSE LET first == CHOOSE m \in S : \A n \in S : m[k] <= n[k]
         IN <<first>> \o sorted(S \ {first}, k)

\* abs(dz) ** 0.5, to three decimals.
Root(d) == Norm(FloorSqrt(Abs(d) * Scale * Scale), Scale)

\* sum([abs(z[i] - z[i - 1]) ** 0.5 for i in range(1, len(z))])
RECURSIVE sum_roots(_, _)
sum_roots(pts, i) ==
    IF i > Len(pts) THEN Zero
    ELSE QAdd(Root(pts[i][1] - pts[i - 1][1]), sum_roots(pts, i + 1))

mu_of(pts) == IF Len(pts) > 1 THEN sum_roots(pts, 2) ELSE Zero

\* Variant of ns_points that orders the points by their Z value.
ns_points_SortedByZ(zd) == sorted({q \in zd : q[2] = "N-S"}, 1)

ns_points(zd) == sorted({q \in zd : q[2] = "N-S"}, 4)
we_points(zd) == sorted({q \in zd : q[2] = "W-E"}, 3)

\* Step 10: one vertical_relief row per zone of the grid.
vertical_relief(pts) ==
    [zid \in {StatZoneID(z) : z \in Zones} |->
        LET zd == {q \in pts : q[5] = zid}
            mu_ns == mu_of(ns_points(zd))
            mu_we == mu_of(we_points(zd))
        IN IF zd = {}
           THEN [MU_NS |-> Zero, MU_WE |-> Zero, MU |-> Zero,
                 A |-> Null, A_sqrt |-> Null, RM |-> Null]
           ELSE [MU_NS |-> mu_ns, MU_WE |-> mu_we,
                 MU |-> QDiv(QAdd(mu_ns, mu_we), Rat(2)),
                 A |-> Null, A_sqrt |-> Null, RM |-> Null]]

\* Step 11b.
with_areas(t, ad) ==
    [zid \in DOMAIN t |->
        IF zid \in DOMAIN ad
        THEN [t[zid] EXCEPT !.A = Rat(ad[zid]), !.A_sqrt = A_sqrt(ad[zid])]
        ELSE t[zid]]

\* Step 11c.
with_RM(t) ==
    [zid \in DOMAIN t |->
        IF ~IsNull(t[zid].MU) /\ t[zid].A_sqrt \notin {Null, Zero}
        THEN [t[zid] EXCEPT !.RM = QDiv(t[zid].MU, t[zid].A_sqrt)]
        ELSE [t[zid] EXCEPT !.RM = Null]]

InitRelief ==
    /\ tool = "R_M" /\ policy = NoPolicy /\ gridId \in IdFields
    /\ cats = NoCats /\ nums = NoNums /\ areas = NoNums
    /\ table = EmptyTable /\ minv = Null /\ maxv = Null /\ out = NoOut
    /\ all_points \in AllPointsInputs
    /\ \E a \in AreaInputs :
          area_dict = [zid \in {gridId[z] : z \in Zones} |->
                          IF zid = gridId[1] THEN a ELSE 4]
    /\ vr = <<>>
    /\ pc = "centroids"
    /\ RunIdle /\ ShdiIdle /\ SdcIdle /\ RmIdle /\ AsgIdle

\* Step 2: row[0].centroid; a row without geometry raises AttributeError
\* and the run ends in the except clause.
CentroidTable ==
    /\ tool = "R_M" /\ pc = "centroids"
    /\ pc' = IF \E zid \in DOMAIN area_dict : area_dict[zid] = NoArea
             THEN "failed" ELSE "relief"
    /\ UNCHANGED <<inputs, table, minv, maxv, out, relVars,
                   runVars, shdiVars, sdcVars, rmVars, asgVars>>

\* Step 10.
CalculateMU ==
    /\ tool = "R_M" /\ pc = "relief"
    /\ vr' = vertical_relief(all_points)
    /\ pc' = "area"
    /\ UNCHANGED <<inputs, table, minv, maxv, out, all_points, area_dict,
                   runVars, shdiVars, sdcVars, rmVars, asgVars>>

\* Steps 11a-11b.
UpdateAreas ==
    /\ tool = "R_M" /\ pc = "area"
    /\ vr' = with_areas(vr, area_dict)
    /\ pc' = "rm"
    /\ UNCHANGED <<inputs, table, minv, maxv, out, all_points, area_dict,
                   runVars, shdiVars, sdcVars, rmVars, asgVars>>

\* Step 11c.
CalculateRM ==
    /\ tool = "R_M" /\ pc = "rm"
    /\ vr' = with_RM(vr)
    /\ pc' = "rmdone"
    /\ UNCHANGED <<inputs, table, minv, maxv, out, all_points, area_dict,
                   runVars, shdiVars, sdcVars, rmVars, asgVars>>

NextRelief == CentroidTable \/ CalculateMU \/ UpdateAreas \/ CalculateRM

SpecRelief == InitRelief /\ [][NextRelief]_vars


\* ===================================================================
\* Claims over Spec
\* ===================================================================
Standardized == pc \in {"join", "done"}
AllStdZero == \A k \in DOMAIN table : table[k].std = Zero
Half == <<1, 2>>

\* C1: in the hand-rolled standardizers P_Nc, P_Ne and R_M, whenever the
\* scaling maximum equals the scaling minimum - also when no non-null raw
\* value exists at all - every row of the result table gets the standardized
\* value 0, rows with a null raw value included.
C1_DegenerateAllZero ==
    (tool \in {"P_Nc", "P_Ne", "R_M"} /\ Standardized
       /\ (maxv = minv \/ NonNullRaw(table) = {}))
    => AllStdZero

\* C2 as stated: whenever all raw values of the table are equal (a single row
\* included), under either null policy every standardized value written by
\* P_Nc, P_Ne and L_Tl is 0.
ConstantRaw == /\ DOMAIN table # {}
               /\ \A j, k \in DOMAIN table : table[j].raw = table[k].raw

C2_ConstantAllZero_Original ==
    (tool \in PolicyTools /\ Standardized /\ ConstantRaw) => AllStdZero

\* C2 amended: for a constant raw column, under PreserveNull every
\* standardized value is 0; under ZeroFill (minimum fixed at 0) every
\* standardized value is 0 when the common raw value is 0 and 1 otherwise.
C2_ConstantAmended ==
    (tool \in PolicyTools /\ Standardized /\ ConstantRaw)
    => \A k \in DOMAIN table :
          table[k].std = (IF policy = ZeroFill /\ table[k].raw # Zero
                          THEN One ELSE Zero)

C2_Witness ==
    /\ tool = "L_Tl" /\ pc = "done" /\ policy = ZeroFill
    /\ Cardinality(DOMAIN table) = 1
    /\ \E k \in DOMAIN table : table[k].raw = Rat(2) /\ table[k].std = One

\* C3: when the scaling maximum differs from the scaling minimum, every
\* non-null standardized value of P_Nc, P_Ne and L_Tl lies in [0,1]; under
\* PreserveNull the smallest non-null raw value maps to 0 and the largest to
\* 1; under ZeroFill a raw 0 maps to 0 and the largest raw value maps to 1.
C3_RangeAndEndpoints ==
    (tool \in PolicyTools /\ Standardized /\ maxv # minv)
    => \A k \in DOMAIN table :
          /\ ~IsNull(table[k].std)
                => (QLeq(Zero, table[k].std) /\ QLeq(table[k].std, One))
          /\ (~IsNull(table[k].raw) /\ table[k].raw = QMax(NonNullRaw(table)))
                => table[k].std = One
          /\ (policy = PreserveNull /\ ~IsNull(table[k].raw)
                /\ table[k].raw = QMin(NonNullRaw(table)))
                => table[k].std = Zero
          /\ (policy = ZeroFill /\ table[k].raw = Zero) => table[k].std = Zero

C3_Witness ==
    /\ tool = "P_Nc" /\ pc = "done" /\ policy = PreserveNull /\ maxv # minv
    /\ \E j, k \in DOMAIN table :
          /\ table[j].raw = Rat(1) /\ table[j].std = Zero
          /\ table[k].raw = Rat(2) /\ table[k].std = One

\* The raw values that were observed, taken from the run's input.
ObservedRaw ==
    IF tool = "P_Nc"
    THEN {Rat(Cardinality(cats[z])) : z \in {y \in Zones : cats[y] # {}}}
    ELSE IF tool = "P_Ne"
    THEN {Rat(nums[z]) : z \in {y \in Zones : nums[y] > 0}}
    ELSE {QDiv(Rat(nums[z]), Rat(ISqrt(areas[z]))) :
              z \in {y \in Zones : areas[y] > 0}}

NullPreserving ==
    \/ tool \in {"P_Nc", "P_Ne"} /\ policy = PreserveNull
    \/ tool = "R_M"

\* C4 as stated: under PreserveNull every zone with a null raw value gets a
\* null standardized value, and minimum and maximum are those of the
\* observed (non-null) raw values.
C4_NullStaysNull_Original ==
    (NullPreserving /\ Standardized)
    => /\ \A k \in DOMAIN table : IsNull(table[k].raw) => IsNull(table[k].std)
       /\ ObservedRaw # {}
             => (minv = QMin(ObservedRaw) /\ maxv = QMax(ObservedRaw))

\* C4 amended: under PreserveNull, whenever the scaling maximum differs from
\* the scaling minimum, every zone with a null raw value gets a null
\* standardized value; minimum and maximum are always those of the observed
\* (non-null) raw values.
C4_NullStaysNullAmended ==
    (NullPreserving /\ Standardized)
    => /\ maxv # minv
             => \A k \in DOMAIN table :
                    IsNull(table[k].raw) => IsNull(table[k].std)
       /\ ObservedRaw # {}
             => (minv = QMin(ObservedRaw) /\ maxv = QMax(ObservedRaw))

C4_Witness ==
    /\ tool = "P_Ne" /\ policy = PreserveNull /\ pc = "done" /\ maxv # minv
    /\ \E j, k \in DOMAIN table :
          /\ IsNull(table[j].raw) /\ IsNull(table[j].std)
          /\ table[k].std = One


\* The scenario of C5: zone 1 holds categories {A, B}, zones 2 and 3 hold
\* {A}, every further zone holds nothing; zones are identified by OBJECTID.
Scenario ==
    /\ gridId = IdByObjectId
    /\ \A z \in Zones : cats[z] = (IF z = 1 THEN {"A", "B"}
                                   ELSE IF z \in {2, 3} THEN {"A"} ELSE {})

Column(f) ==
    [z \in Zones |-> IF z = 1 THEN f[1] ELSE IF z \in {2, 3} THEN f[2] ELSE f[3]]

RawOut == [z \in Zones |-> out[z].raw]
StdOut == [z \in Zones |-> out[z].std]

C6_OneRowPerZone ==
    (tool = "A_Ne" /\ pc \in {"standardize", "join", "done", "failed"})
    => /\ DOMAIN table = all_near_fid
       /\ pc = "done" => \A z \in Zones : ~IsNull(out[z].raw)

\* C7: after the completion step of P_Nc the frequency table holds exactly
\* one row per grid zone id and no other key; a zone without points carries
\* 0 (ZeroFill) or null (PreserveNull); a zone with points keeps its count.
C7_CompletedTable ==
    (tool = "P_Nc" /\ pc = "standardize")
    => /\ DOMAIN table = all_near_fid
       /\ \A z \in Zones :
             table[StatZoneID(z)].raw =
                 (IF cats[z] # {} THEN Rat(Cardinality(cats[z]))
                  ELSE IF policy = ZeroFill THEN Zero ELSE Null)


\* ===================================================================
\* Claims over SpecRun
\* ===================================================================
Terminated == rpc = "idle" /\ runs >= 1

\* C8: for every tool, a run with valid inputs on a grid that still carries
\* the output column written by an earlier run ends in the field-conflict
\* error, and the grid's columns were not changed by that run.
C8_SecondRunConflict ==
    (Terminated /\ input = "none" /\ Col(output_index_name(rtool)) \in cols0)
    => (rerr = "FieldConflict" /\ ~changed /\ cols = cols0)

\* C9: for every tool and every run that added the temporary StatZoneID
\* column to the grid, the column is gone when the run has terminated, on
\* the success path and on every failure path.
C9_StatZoneRemoved ==
    (Terminated /\ statAdded) => StatZoneCol \notin cols

InputAbortErrors ==
    {"InvalidNullMode", "Shapefile", "EmptyLayer", "Disjoint",
     "FieldConflict", "EmptyIntersect"}

\* C10: in every tool, a check that aborts the run because of its inputs is
\* evaluated before the first change to the grid's columns, so the aborted
\* run leaves the columns exactly as they were.
C10_AbortBeforeChange ==
    (rerr \in InputAbortErrors /\ rpc \in {"except", "finally", "idle"})
    => (~changed /\ (rpc = "idle" => cols = cols0))


AggregationTools == {"A_Nc", "A_Ne", "A_SHDI", "L_Tl", "P_Nc", "P_Ne", "P_Hu"}

\* C11: in every aggregation tool, a run whose landscape and grid extents are
\* disjoint is aborted with the extent error before any intersect, dissolve,
\* spatial-join or nearest-feature operation is executed.
C11_DisjointFailsFast ==
    (rtool \in AggregationTools /\ input = "disjoint")
    => /\ rpc \notin {"removeold", "join", "rename", "cleanup"}
       /\ Terminated => rerr = "Disjoint"

\* C12: after a run of any tool that ends without error, the grid's columns
\* are those it had before the run plus exactly the two new output columns
\* (raw and standardized); no earlier column is gone and StatZoneID is absent.
C12_TwoNewColumns ==
    (Terminated /\ rerr = "none")
    => /\ Col(output_index_name(rtool)) \notin cols0
       /\ Col(std_output_index_name(rtool)) \notin cols0
       /\ cols = cols0 \cup {Col(output_index_name(rtool)),
                             Col(std_output_index_name(rtool))}
       /\ StatZoneCol \notin cols


\* ===================================================================
\* Claims over SpecSHDI
\* ===================================================================
ProportionsDone ==
    tool = "A_SHDI" /\ pc \notin {"aggregate", "proportion"} /\ DOMAIN freq # {}

SumDone == tool = "A_SHDI" /\ table # EmptyTable

HasRows(z) == \E c \in Categories : shares[z][c] >= 0
PositiveCats(z) == {c \in Categories : shares[z][c] > 0}

\* C13: in A_SHDI every zone in which one category only is present gets
\* H = 0 exactly, and a row whose proportion is 0 contributes 0 to the sum.
C13_SingleCategoryZero ==
    /\ SumDone =>
          \A z \in Zones :
              (HasRows(z) /\ Cardinality(PositiveCats(z)) <= 1)
              => (StatZoneID(z) \in DOMAIN table
                    /\ table[StatZoneID(z)].raw = Zero)
    /\ ProportionsDone =>
          \A kc \in DOMAIN freq :
              freq[kc].p_i = Zero => freq[kc].SumElement = Zero

C13_Witness ==
    /\ SumDone /\ pc = "done"
    /\ shares[1] = [c \in Categories |-> IF c = "A" THEN MaxShare ELSE 0]
    /\ table[StatZoneID(1)].raw = Zero
    /\ \E kc \in DOMAIN freq : freq[kc].p_i = Zero
    /\ \E k \in DOMAIN table : QLess(Zero, table[k].raw)

\* C14: in A_SHDI, for every zone and category, p_i equals the area of the
\* category inside the zone divided by the total area of the zone, also for
\* zones that the landscape layer covers only in part.
C14_ProportionOfZoneArea ==
    ProportionsDone =>
        \A kc \in DOMAIN freq : freq[kc].p_i = Norm(freq[kc].area, ZoneArea)


\* ===================================================================
\* Claims over SpecSDc
\* ===================================================================
SdcTools == {"R_SDc", "R_SDc_mem"}
SdcCalculated == tool \in SdcTools /\ pc \in {"standardize", "join", "done"}
SdcStandardized == tool \in SdcTools /\ pc \in {"join", "done"}
NoCount(z) == cells[z].kind \in {"absent", "countNone", "countZero"}
CountedSDc == {table[StatZoneID(z)].raw : z \in {y \in Zones : ~NoCount(y)}}

\* C15: in the circular-SD tools a zone whose raster cell count is 0 or
\* missing gets a null SDc, and the zone is left out of the minimum and the
\* maximum that standardize SDc.
C15_NoCountNullSDc ==
    SdcStandardized =>
        /\ \A z \in Zones :
              NoCount(z) =>
                 /\ StatZoneID(z) \in DOMAIN table
                       => IsNull(table[StatZoneID(z)].raw)
                 /\ pc = "done" => IsNull(out[z].raw)
        /\ CountedSDc # {} => (minv = QMin(CountedSDc) /\ maxv = QMax(CountedSDc))

Uniform(z) == cells[z].kind = "cells" /\ cells[z].dirs = Directions

\* C16 as stated: a zone whose angles are spread uniformly over the circle
\* has mean resultant length 0 and SDc = 180 degrees.
C16_Uniform180_Original ==
    SdcCalculated =>
        \A z \in Zones :
            Uniform(z) => /\ zonal[StatZoneID(z)].R_Mn = Zero
                          /\ table[StatZoneID(z)].raw = Rat(180)

\* C16 amended: a zone whose angles are spread uniformly over the circle has
\* mean resultant length 0 and SDc = (180/pi) * sqrt(2), about 81.03
\* degrees; that is the upper bound of SDc, which never reaches 180.
C16_UniformUpperBound ==
    SdcCalculated =>
        /\ \A z \in Zones :
              Uniform(z) => /\ zonal[StatZoneID(z)].R_Mn = Zero
                            /\ QLeq(Norm(8100, 100), table[StatZoneID(z)].raw)
                            /\ QLeq(table[StatZoneID(z)].raw, Norm(8105, 100))
        /\ \A k \in DOMAIN table : QLeq(table[k].raw, Norm(8105, 100))

C16_Witness ==
    /\ SdcCalculated /\ pc = "done"
    /\ Uniform(1) /\ QLess(Rat(81), out[1].raw)
    /\ cells[2].kind = "cells" /\ Cardinality(cells[2].dirs) = 1
    /\ out[2].raw = Zero


\* ===================================================================
\* Claims over SpecExtrema
\* ===================================================================
InteriorExtrema ==
    {<<i, values[i]>> : i \in {j \in 2..(Len(values) - 1) : is_extremum(values, j)}}

Endpoints ==
    {<<i, values[i]>> : i \in {j \in {1, Len(values)} : ~IsNull(values[j])}}

\* C17: for every sampled profile detect_extrema returns exactly the interior
\* samples strictly greater or strictly less than both neighbours, plus the
\* first and the last sample whenever their value is non-null, whatever the
\* number of non-null samples on the profile.
C17_ExtremaAndEndpoints ==
    (tool = "R_M" /\ pc = "detected")
        => Range(extrema) = InteriorExtrema \cup Endpoints


\* ===================================================================
\* Claims over SpecAssign
\* ===================================================================
HalfCell == CellSize \div 2

OnCentroidAxis(z, pt) ==
    IF pt.Direction = "W-E"
    THEN Abs(pt.y - (grid_geom[z].ylo + grid_geom[z].yhi) \div 2) <= HalfCell
    ELSE Abs(pt.x - (grid_geom[z].xlo + grid_geom[z].xhi) \div 2) <= HalfCell

InPolygon(z, pt) ==
    /\ pt.x \in grid_geom[z].xlo..grid_geom[z].xhi
    /\ pt.y \in grid_geom[z].ylo..grid_geom[z].yhi

BothHold(z, pt) == OnCentroidAxis(z, pt) /\ InPolygon(z, pt)

\* C18: in R_M every extreme point ends with a zone id that is null or the id
\* of a zone whose centroid axis, for the point's direction, is within half
\* a raster cell of the point and whose polygon contains the point; a point
\* that no zone fits stays null and is in no zone's data; no point is in the
\* data of more than one zone.
C18_AxisAndContainment ==
    /\ (tool = "R_M" /\ pc \in {"group", "grouped"}) =>
          \A pt \in extreme_fc :
              /\ \/ pt.zid = NoneZid
                 \/ \E z \in DOMAIN grid_geom :
                        StatZoneID(z) = pt.zid /\ BothHold(z, pt)
              /\ (\A z \in DOMAIN grid_geom : ~BothHold(z, pt))
                     => pt.zid = NoneZid
    /\ (tool = "R_M" /\ pc = "grouped") =>
          /\ \A z \in DOMAIN grid_geom :
                \A pt \in zone_data(points_map, StatZoneID(z)) :
                    pt.zid = StatZoneID(z) /\ BothHold(z, pt)
          /\ \A z1, z2 \in DOMAIN grid_geom :
                z1 # z2 => zone_data(points_map, StatZoneID(z1))
                             \cap zone_data(points_map, StatZoneID(z2)) = {}

C18_Witness ==
    /\ tool = "R_M" /\ pc = "grouped"
    /\ \E pt \in extreme_fc :
          /\ pt.zid # NoneZid
          /\ pt \in zone_data(points_map, pt.zid)
          /\ \E z \in DOMAIN grid_geom :
                /\ StatZoneID(z) # pt.zid
                /\ OnCentroidAxis(z, pt) /\ ~InPolygon(z, pt)


\* ===================================================================
\* Claims over SpecRelief
\* ===================================================================
ReliefDone == tool = "R_M" /\ pc \in {"area", "rm", "rmdone"}

\* The points of a zone in one direction, as position |-> elevation.
AlongAxis(zid, dir) ==
    {<<IF dir = "N-S" THEN q[4] ELSE q[3], q[1]>> :
        q \in {r \in all_points : r[5] = zid /\ r[2] = dir}}

Neighbours(P) ==
    {pq \in P \X P :
        /\ pq[1][1] < pq[2][1]
        /\ ~\E r \in P : pq[1][1] < r[1] /\ r[1] < pq[2][1]}

RECURSIVE SumOfRoots(_)
SumOfRoots(N) ==
    IF N = {} THEN Zero
    ELSE LET pq == CHOOSE x \in N : TRUE
         IN QAdd(Root(pq[1][2] - pq[2][2]), SumOfRoots(N \ {pq}))

\* C19: in R_M the relief of a zone in a direction is the sum of the square
\* roots of the absolute elevation differences between points that follow
\* each other along the axis, 0 with fewer than 2 points; the zone's relief
\* is the mean of the N-S and the W-E value; elevations 0 and 4 give 2, and
\* equal elevations give 0.
C19_ReliefAlongAxis ==
    ReliefDone =>
        \A z \in Zones :
            LET zid == StatZoneID(z)
                ns == AlongAxis(zid, "N-S")
                we == AlongAxis(zid, "W-E")
            IN /\ vr[zid].MU_NS = SumOfRoots(Neighbours(ns))
               /\ vr[zid].MU_WE = SumOfRoots(Neighbours(we))
               /\ Cardinality(ns) < 2 => vr[zid].MU_NS = Zero
               /\ Cardinality(we) < 2 => vr[zid].MU_WE = Zero
               /\ QMul(Rat(2), vr[zid].MU) = QAdd(vr[zid].MU_NS, vr[zid].MU_WE)
               /\ (Cardinality(ns) = 2 /\ {q[2] : q \in ns} = {0, 4})
                     => vr[zid].MU_NS = Rat(2)
               /\ (Cardinality({q[2] : q \in ns \cup we}) <= 1)
                     => vr[zid].MU = Zero

C19_Witness ==
    /\ ReliefDone
    /\ LET zid == StatZoneID(1)
       IN /\ Cardinality(AlongAxis(zid, "N-S")) = 2
          /\ {q[2] : q \in AlongAxis(zid, "N-S")} = {0, 4}
          /\ AlongAxis(zid, "W-E") = {<<0, 0>>, <<1, 4>>, <<2, 1>>}
          /\ vr[zid].MU_NS = Rat(2)
          /\ vr[zid].MU_WE = Norm(3732, 1000)
          /\ vr[zid].MU = Norm(2866, 1000)

\* C20: in R_M a zone whose area is zero or undefined gets a null RM while
\* the run goes on for the other zones; a zone with positive area gets
\* RM = relief / sqrt(area).
C20_NullRMForNoArea ==
    (tool = "R_M" /\ pc \notin {"centroids", "relief", "area", "rm"}) =>
        /\ pc = "rmdone"
        /\ \A z \in Zones :
              LET zid == StatZoneID(z)
              IN IF area_dict[zid] > 0
                 THEN vr[zid].RM = QDiv(vr[zid].MU, Rat(ISqrt(area_dict[zid])))
                 ELSE IsNull(vr[zid].RM)


\* ===================================================================
\* Further claims over SpecSHDI
\* ===================================================================
\* C22: no tool hands a column to StandardizeField unless it has found that
\* the column's minimum differs from its maximum; with equal values the tool
\* itself writes 0 to every row.  Seen from the result in A_SHDI: once a
\* column with MIN = MAX has passed the standardization step, the run has not
\* failed there and every standardized value is 0.
C22_GuardedStandardizeField ==
    (tool = "A_SHDI" /\ table # EmptyTable /\ pc \in {"join", "done", "failed"}
       /\ ~IsNull(minv) /\ minv = maxv)
    => (pc # "failed" /\ \A k \in DOMAIN table : table[k].std = Zero)


\* ===================================================================
\* Further claims over SpecAssign
\* ===================================================================
ProfilesDone == tool = "R_M" /\ pc \in {"detect", "assign", "group", "grouped"}

CentroidY(z) == (grid_geom[z].ylo + grid_geom[z].yhi) \div 2
CentroidX(z) == (grid_geom[z].xlo + grid_geom[z].xhi) \div 2

\* C23: in R_M, after the global profiles are generated, every zone has a
\* W-E profile within half a raster cell height of its centroid Y and an N-S
\* profile within half a raster cell width of its centroid X, and no two
\* profiles of one direction lie within that tolerance of each other.
C23_ProfilesPierceCentroids ==
    ProfilesDone =>
        /\ \A z \in DOMAIN grid_geom :
              /\ \E pl \in profiles :
                    pl[1] = "W-E" /\ Abs(pl[2] - CentroidY(z)) <= HalfCell
              /\ \E pl \in profiles :
                    pl[1] = "N-S" /\ Abs(pl[2] - CentroidX(z)) <= HalfCell
        /\ \A p1, p2 \in profiles :
              (p1[1] = p2[1] /\ p1 # p2) => Abs(p1[2] - p2[2]) > HalfCell

C23_Witness ==
    /\ ProfilesDone
    /\ \E z1, z2 \in DOMAIN grid_geom :
          Abs(CentroidY(z1) - CentroidY(z2)) = HalfCell
    /\ Cardinality({pl \in profiles : pl[1] = "W-E"}) = 1


\* ===================================================================
\* Further claims over SpecRun
\* ===================================================================

\* C21: in every tool, a failure of a cleanup operation at the end of the run
\* (deleting an intermediate dataset, deleting the StatZoneID column,
\* compacting the workspace) is reported as a warning and never turns the
\* otherwise completed run into a reported error.
C21_CleanupFailureOnlyWarns ==
    (Terminated /\ input \in CleanupFailures)
    => rerr # "CleanupExecuteError"

AfterDecoration ==
    /\ rtool \in StatZoneTools /\ statAdded
    /\ rpc \in {"process", "removeold", "join", "rename", "cleanup"}

\* C24: after the zone-decoration step of any tool the grid has a StatZoneID
\* column whose value in every row is that row's value of the chosen id
\* field, whether or not the grid carried a StatZoneID column with other
\* values before: a column found there is deleted and made again.
C24_FreshStatZoneID ==
    AfterDecoration
    => /\ StatZoneCol \in cols
       /\ DOMAIN statzone = Zones
       /\ \A z \in Zones : statzone[z] = idfield[z]

C24_Witness ==
    /\ AfterDecoration /\ rpc = "process"
    /\ StatZoneCol \in cols0 /\ stat0 # NoColumn /\ stat0 # idfield
    /\ statzone = idfield

\* C26: R_SD, run with a valid raster, an overlapping non-empty grid and no
\* conflicting output columns, passes its input validation, reaches the
\* zonal statistics and terminates with the SD column and the standardized
\* SD column joined onto the grid.
C26_R_SD_Completes ==
    (rtool = "R_SD" /\ Terminated /\ input = "none"
       /\ ~FieldConflict(rtool, cols0))
    => /\ rerr = "none"
       /\ Col(output_index_name(rtool)) \in cols
       /\ Col(std_output_index_name(rtool)) \in cols

\* C28: after a run of any tool has terminated, none of the intermediate
\* datasets created by the run is left in the workspace geodatabase or in
\* memory.
C28_NoIntermediateLeft ==
    Terminated => datasets \cap Intermediates(rtool) = {}

\* C29: in every tool, when the results are joined back, no grid column has
\* a name equal (ignoring case) to one of the join's working field names, so
\* that the columns renamed to the output names are those of this run's join.
C29_NoStaleJoinColumn ==
    rpc = "join"
    => \A f \in cols : \A n \in Range(JoinFields(rtool)) :
           UpperCol(f) # UpperCol(Col(n))

\* C30: after any run of P_Nc, successful or failed, the landscape point
\* layer has the columns it had before the run: NEAR_FID and NEAR_DIST are
\* gone and no column it had is removed.
C30_LandscapeColumnsKept ==
    (rtool = "P_Nc" /\ Terminated) => landscape = landscape0


\* ===================================================================
\* Further claims over Spec
\* ===================================================================

\* C25: in P_Nc, for every choice of the grid id field, also one whose
\* values differ from the engine's feature ids, the raw value joined onto a
\* grid cell that holds points is the number of distinct categories among
\* the points assigned to that very cell.
C25_CountOnOwnCell ==
    (tool = "P_Nc" /\ pc = "done")
    => \A z \in Zones :
           cats[z] # {} => out[z].raw = Rat(Cardinality(cats[z]))

ObservedLengths == {Rat(nums[z]) : z \in {y \in Zones : nums[y] > 0}}

\* C27: in L_Tl, after a successful run: under ZeroFill no grid row has a
\* null in either output column, zones without any line carry raw length 0
\* and standardized value 0, and the scaling minimum is 0; under
\* PreserveNull zones without any line carry null in both output columns and
\* the scaling minimum is the smallest observed length.
C27_L_Tl_NullPolicy ==
    (tool = "L_Tl" /\ pc = "done")
    => IF policy = ZeroFill
       THEN /\ \A z \in Zones : ~IsNull(out[z].raw) /\ ~IsNull(out[z].std)
            /\ \A z \in Zones : nums[z] = 0 => out[z] = Row(Zero, Zero)
            /\ minv = Zero
       ELSE /\ \A z \in Zones : nums[z] = 0 => out[z] = Row(Null, Null)
            /\ ObservedLengths # {} => minv = QMin(ObservedLengths)

C27_Witness ==
    /\ tool = "L_Tl" /\ pc = "done" /\ policy = PreserveNull
    /\ \E z \in Zones : nums[z] = 0 /\ out[z] = Row(Null, Null)
    /\ \E z \in Zones : nums[z] > 0 /\ out[z].std = One
    /\ minv = One /\ maxv # minv


====
